---- MODULE Spec2Model ----
(***************************************************************************)
(* Verification model of the marmot-edge video pipeline:                   *)
(*   - VideoManager (services/video_service.py): the stream registry,      *)
(*   - the three bounded queues and their producers and consumers          *)
(*     (VideoStreamWorker._process_frames, VideoProcessor collector and    *)
(*     processing workers),                                                *)
(*   - RectangleZoneAnalyzer (workers/video_processor.py): zone occupancy  *)
(*     and the status / movement histories, and the efficiency query      *)
(*     over them (get_zone_efficiency and its API endpoint),               *)
(*   - ZoneAnalyzer (services/zone_analyzer.py): the histories it keeps    *)
(*     and their age-based pruning,                                        *)
(*   - one VideoStreamWorker over its life: connecting, the reconnection   *)
(*     schedule, capturing, zone updates, status queries, stop, cleanup,   *)
(*   - VideoProcessor's processing workers step by step, its statistics    *)
(*     and its result queries,                                             *)
(*   - the worker's frame rate control under hot updates of target_fps,    *)
(*   - VideoProcessor.shutdown against the collector and the processing    *)
(*     workers, and the analyzer with histories at their caps,             *)
(*   - VideoManager's add_stream, remove_stream, shutdown and the          *)
(*     collector's get_all_frames as concurrent threads.                   *)
(* Each part has its own specification (SpecRegistry, SpecPipeline,        *)
(* SpecAnalyzer, SpecCaps, SpecHistory, SpecRetention, SpecWorker,         *)
(* SpecWorkerFair, SpecFps, SpecProcessing, SpecShutdown, SpecManager)     *)
(* over the variables it owns; the variables of the other parts stay at    *)
(* their initial value.                                                    *)
(***************************************************************************)
EXTENDS Integers, Sequences, FiniteSets, TLC

VARIABLES
    \* ---- VideoManager ----
    streams,        \* VideoManager.streams: stream_id -> worker
    running,        \* VideoManager.running (threading.Event)
    call,           \* the last call made on the registry and what it returned
    \* ---- the frame pipeline ----
    frame_queue,        \* VideoStreamWorker.frame_queue, Queue(maxsize=100)
    processing_queue,   \* VideoProcessor.processing_queue, Queue(maxsize=1000)
    results_queue,      \* VideoProcessor.results_queue, Queue(maxsize=1000)
    sw,                 \* the stream worker thread: position, frame in hand, frames captured
    col,                \* the collector thread: position, frame in hand
    pw,                 \* the processing worker threads: position and frame/result in hand
    budget,             \* loop iterations each thread may still start
    pushlog,            \* per queue: the items put so far, while no consumer has taken one
    popped,             \* per queue: a consumer has taken an item
    \* ---- RectangleZoneAnalyzer ----
    zone_status_history,    \* stream_id -> zone_id -> list of {status, timestamp}
    track_history,          \* stream_id -> track_id -> list of {zone_id, timestamp}
    an,                     \* per processing worker: the analysis pass it is in
    now,                    \* the clock read by datetime.utcnow()
    passes,                 \* analysis passes started so far
    \* ---- ZoneAnalyzer (services/zone_analyzer.py) and the efficiency query ----
    za_track_history,       \* ZoneAnalyzer.track_history: track_id -> list
    za_zone_status_history, \* ZoneAnalyzer.zone_status_history: zone_id -> list
    za_pass,                \* the last ZoneAnalyzer pass: its timestamp and input
    eff,                    \* the last efficiency query and what it returned
    ticks,                  \* clock advances so far
    purge,                  \* the last clear_old_tracking_data call: count, cutoff, histories before it
    \* ---- one VideoStreamWorker over its life ----
    wk,                     \* the worker object's fields and its thread's position
    zone_lists,             \* the rectangle lists built so far; a reference is an index
    sched,                  \* the reconnection schedules: count, events of the current one
    status_query,           \* the status queries made of the worker: count, what the last one reported
    \* ---- VideoProcessor: the processing workers in detail, statistics, result queries ----
    proc,                   \* per processing worker: position, frame or result in hand
    stats,                  \* VideoProcessor.stats
    handled,                \* what became of each frame a processing worker took
    res,                    \* the last result query and what it returned
    \* ---- VideoProcessor.running and the thread that runs shutdown() ----
    vp,                     \* the running flag; shutdown()'s position and the thread it joins
    \* ---- VideoManager under concurrent calls ----
    mgr                     \* the worker objects, the order of the registry's entries, each caller's position

registryVars == <<streams, running, call>>

pipelineVars == <<frame_queue, processing_queue, results_queue, sw, col, pw,
                  budget, pushlog, popped>>

analyzerVars == <<zone_status_history, track_history, an, now, passes>>

historyVars == <<za_track_history, za_zone_status_history, za_pass, eff, ticks,
                 purge>>

vars == <<streams, running, call,
          frame_queue, processing_queue, results_queue, sw, col, pw,
          budget, pushlog, popped,
          zone_status_history, track_history, an, now, passes,
          za_track_history, za_zone_status_history, za_pass, eff, ticks, purge,
          wk, zone_lists, sched, status_query,
          proc, stats, handled, res,
          vp, mgr>>

workerVars == <<wk, zone_lists, sched, status_query>>

processorVars == <<proc, stats, handled, res>>

shutdownVars == <<vp>>

managerVars == <<mgr>>

\* What an action of one part leaves alone: the variables of the other parts.
outsideRegistry == <<pipelineVars, analyzerVars, historyVars, workerVars,
                     processorVars, shutdownVars, managerVars>>
outsidePipeline == <<registryVars, analyzerVars, historyVars, workerVars,
                     processorVars, shutdownVars, managerVars>>
outsideAnalyzer == <<registryVars, pipelineVars, historyVars, workerVars,
                     processorVars, shutdownVars, managerVars>>
outsideProcessing == <<registryVars, analyzerVars, historyVars, workerVars,
                       shutdownVars, managerVars>>
outsideWorker == <<registryVars, analyzerVars, historyVars,
                   processing_queue, results_queue, sw, col, pw, budget,
                   pushlog, popped, processorVars, shutdownVars, managerVars>>

None == "None"

\* An optional argument is the empty set (None, not given) or a singleton.
Given(opt) == opt # {}
TheValue(opt) == CHOOSE v \in opt : TRUE

\* An empty dict
EmptyMap == [i \in {} |-> None]

(***************************************************************************)
(*                          VideoManager                                   *)
(***************************************************************************)

MAX_STREAMS == 4
MAX_ZONES_PER_STREAM == 10
MAX_TOTAL_ZONES == 40

\* Stream identifiers the callers use: one more than the registry may hold.
StreamIds == {"s1", "s2", "s3", "s4", "s5"}

\* Rectangle(x_min, y_min, x_max, y_max, zone_id)
Rect(x0, y0, x1, y1, id) ==
    [x_min |-> x0, y_min |-> y0, x_max |-> x1, y_max |-> y1, zone_id |-> id]

\* A list of n rectangles with zone ids 1..n.
MakeZones(n) ==
    [i \in 1..n |-> Rect(0, 0, 100, 100, i)]

\* The rectangle lists callers pass: two zones, exactly the per-stream
\* maximum, one more than the maximum.
ZoneListInputs ==
    { MakeZones(n) : n \in {2, MAX_ZONES_PER_STREAM, MAX_ZONES_PER_STREAM + 1} }

\* Python's list[:n]
Take(s, n) == IF Len(s) <= n THEN s ELSE SubSeq(s, 1, n)

\* Python's list[-n:]
LastN(s, n) == IF Len(s) <= n THEN s ELSE SubSeq(s, Len(s) - n + 1, Len(s))

RECURSIVE SumLen(_, _)
\* sum(len(worker.zones) for worker in self.streams.values())
SumLen(f, ids) ==
    IF ids = {} THEN 0
    ELSE LET i == CHOOSE x \in ids : TRUE
         IN  Len(f[i].zones) + SumLen(f, ids \ {i})

TotalZones(reg) == SumLen(reg, DOMAIN reg)

\* VideoStreamWorker.__init__: the worker keeps at most 10 of the zones, its
\* stop event is clear.
NewWorker(zones) ==
    [zones |-> Take(zones, 10), stop_event |-> FALSE]

\* add_stream as it would be without the test for a registered id.
AddStreamCheck_NoExists(reg, run, id, zones) ==
    IF ~run THEN "shutting_down"
    ELSE IF Cardinality(DOMAIN reg) >= MAX_STREAMS THEN "max_streams"
    ELSE IF Len(zones) > MAX_ZONES_PER_STREAM THEN "too_many_zones"
    ELSE IF TotalZones(reg) + Len(zones) > MAX_TOTAL_ZONES THEN "total_zones"
    ELSE "ok"

\* The checks of add_stream, in the order of the code; the first that fires
\* names the rejection, "ok" when none does.
AddStreamCheck(reg, run, id, zones) ==
    IF ~run THEN "shutting_down"
    ELSE IF Cardinality(DOMAIN reg) >= MAX_STREAMS THEN "max_streams"
    ELSE IF Len(zones) > MAX_ZONES_PER_STREAM THEN "too_many_zones"
    ELSE IF TotalZones(reg) + Len(zones) > MAX_TOTAL_ZONES THEN "total_zones"
    ELSE IF id \in DOMAIN reg THEN "exists"
    ELSE "ok"

\* self.streams[config.stream_id] = worker
Register(reg, id, w) ==
    [i \in DOMAIN reg \cup {id} |-> IF i = id THEN w ELSE reg[i]]

\* del self.streams[stream_id]
Unregister(reg, id) == [i \in DOMAIN reg \ {id} |-> reg[i]]

\* VideoManager.add_stream(config, zones).  start_ok = FALSE is worker.start()
\* raising: the worker was constructed but is not registered.
add_stream(id, zones, start_ok) ==
    LET why == AddStreamCheck(streams, running, id, zones) IN
    /\ IF why # "ok"
       THEN /\ streams' = streams
            /\ call' = [op |-> "add_stream", id |-> id, nzones |-> Len(zones),
                        result |-> FALSE, created |-> FALSE, why |-> why,
                        stopped |-> {}]
       ELSE IF start_ok
       THEN /\ streams' = Register(streams, id, NewWorker(zones))
            /\ call' = [op |-> "add_stream", id |-> id, nzones |-> Len(zones),
                        result |-> TRUE, created |-> TRUE, why |-> why,
                        stopped |-> {}]
       ELSE /\ streams' = streams
            /\ call' = [op |-> "add_stream", id |-> id, nzones |-> Len(zones),
                        result |-> FALSE, created |-> TRUE, why |-> "start_failed",
                        stopped |-> {}]
    /\ UNCHANGED running

\* worker.stop() on the worker registered under id: its stop event is set.
StopAt(reg, id) == [reg EXCEPT ![id].stop_event = TRUE]

\* remove_stream as it would be if it kept a worker whose join timed out.
remove_stream_KeepsUnjoined(id, joined) ==
    /\ IF id \notin DOMAIN streams
       THEN /\ streams' = streams
            /\ call' = [op |-> "remove_stream", id |-> id, nzones |-> 0,
                        result |-> FALSE, created |-> FALSE, why |-> "not_found",
                        stopped |-> {}]
       ELSE /\ streams' = IF joined THEN Unregister(streams, id)
                          ELSE StopAt(streams, id)
            /\ call' = [op |-> "remove_stream", id |-> id, nzones |-> 0,
                        result |-> joined, created |-> FALSE, why |-> "ok",
                        stopped |-> {id}, joined |-> joined]
    /\ UNCHANGED running

\* VideoManager.remove_stream(stream_id): stop, join (bounded), delete.
\* joined = FALSE is worker.join(timeout=5.0) returning with the thread
\* still alive; the result of join is not looked at.
remove_stream(id, joined) ==
    /\ IF id \notin DOMAIN streams
       THEN /\ streams' = streams
            /\ call' = [op |-> "remove_stream", id |-> id, nzones |-> 0,
                        result |-> FALSE, created |-> FALSE, why |-> "not_found",
                        stopped |-> {}]
       ELSE LET stopping == StopAt(streams, id) IN
            /\ streams' = Unregister(stopping, id)
            /\ call' = [op |-> "remove_stream", id |-> id, nzones |-> 0,
                        result |-> TRUE, created |-> FALSE, why |-> "ok",
                        stopped |-> {i \in {id} : stopping[i].stop_event},
                        joined |-> joined]
    /\ UNCHANGED running

\* update_stream as it would be without the test of the zone count.
update_stream_NoLimit(id, zones) ==
    /\ id \in DOMAIN streams
    /\ Given(zones)
    /\ streams' = [streams EXCEPT ![id].zones = TheValue(zones)]
    /\ call' = [op |-> "update_stream", id |-> id, nzones |-> Len(TheValue(zones)),
                result |-> TRUE, created |-> FALSE, why |-> "ok",
                        stopped |-> {}]
    /\ UNCHANGED running

\* The API's update_stream(stream_id, update_data), zones optional.  The
\* display name, target fps and auto-reconnect flag it also assigns belong to
\* the worker's configuration; no check of the registry reads them.
update_stream(id, zones) ==
    /\ IF id \notin DOMAIN streams
       THEN /\ streams' = streams
            /\ call' = [op |-> "update_stream", id |-> id, nzones |-> 0,
                        result |-> FALSE, created |-> FALSE, why |-> "not_found",
                        stopped |-> {}]
       ELSE LET w1 == streams[id]
                nz == IF Given(zones) THEN Len(TheValue(zones)) ELSE 0
            IN  IF ~Given(zones)
                THEN /\ streams' = [streams EXCEPT ![id] = w1]
                     /\ call' = [op |-> "update_stream", id |-> id, nzones |-> 0,
                                 result |-> TRUE, created |-> FALSE, why |-> "ok",
                        stopped |-> {}]
                ELSE IF nz > 10
                THEN /\ streams' = [streams EXCEPT ![id] = w1]
                     /\ call' = [op |-> "update_stream", id |-> id,
                                 nzones |-> nz, result |-> FALSE,
                                 created |-> FALSE, why |-> "too_many_zones",
                        stopped |-> {}]
                ELSE /\ streams' = [streams EXCEPT
                                       ![id] = [w1 EXCEPT !.zones = TheValue(zones)]]
                     /\ call' = [op |-> "update_stream", id |-> id,
                                 nzones |-> nz, result |-> TRUE,
                                 created |-> FALSE, why |-> "ok",
                        stopped |-> {}]
    /\ UNCHANGED running

\* worker.stop() on every worker of the registry: each stop event is set.
StopAll(reg) == [i \in DOMAIN reg |-> [reg[i] EXCEPT !.stop_event = TRUE]]

\* shutdown as it would be without clearing the registry.
shutdown_KeepsStreams ==
    LET stopping == StopAll(streams) IN
    /\ running' = FALSE
    /\ streams' = stopping
    /\ call' = [op |-> "shutdown", id |-> None, nzones |-> 0,
                result |-> TRUE, created |-> FALSE, why |-> "ok",
                stopped |-> {i \in DOMAIN stopping : stopping[i].stop_event}]

\* VideoManager.shutdown(): clear running, stop and join (bounded) every
\* worker, clear the registry.  call.stopped names the workers whose stop
\* event the call set.
shutdown ==
    LET stopping == StopAll(streams) IN
    /\ running' = FALSE
    /\ streams' = EmptyMap
    /\ call' = [op |-> "shutdown", id |-> None, nzones |-> 0,
                result |-> TRUE, created |-> FALSE, why |-> "ok",
                stopped |-> {i \in DOMAIN stopping : stopping[i].stop_event}]

\* The registry with no call of it in progress.  workers are the worker
\* objects constructed so far, a reference to one is its index; entries is
\* the order of the entries of the dict self.streams, a deleted entry
\* leaving a None in its place.  add, rm, sd and get are the threads inside
\* add_stream, remove_stream, shutdown and the collector's get_all_frames.
NoCallers(workers, entries) ==
    [workers |-> workers, entries |-> entries,
     add |-> [pc |-> "idle", n |-> 0],
     rm |-> [pc |-> "idle", n |-> 0],
     sd |-> [pc |-> "idle"],
     get |-> [pc |-> "idle", n |-> 0],
     captured |-> 0, dequeued |-> {}, forwarded |-> {}, discarded |-> {}]

\* VideoManager.__init__
NewRegistry ==
    /\ streams = EmptyMap
    /\ running = TRUE
    /\ call = [op |-> "init", id |-> None, nzones |-> 0,
               result |-> TRUE, created |-> FALSE, why |-> "ok",
                        stopped |-> {}]
    /\ mgr = NoCallers(<< >>, << >>)

\* VideoProcessor.__init__ and a freshly constructed stream worker: empty
\* queues, every thread at the top of its loop.
NewPipeline ==
    /\ frame_queue = << >>
    /\ processing_queue = << >>
    /\ results_queue = << >>
    /\ sw = [pc |-> "read", frame |-> 0, captured |-> 0]
    /\ col = [pc |-> "collect", frame |-> 0]
    /\ pw = [w \in {1, 2} |-> [pc |-> "get", item |-> 0]]
    /\ budget = [t \in {"sw", "col", "pw", "api"} |-> 0]
    /\ pushlog = [q \in {"frame", "processing", "results"} |-> << >>]
    /\ popped = [q \in {"frame", "processing", "results"} |-> FALSE]

\* RectangleZoneAnalyzer.__init__, no pass running.
NewAnalyzer ==
    /\ zone_status_history = EmptyMap
    /\ track_history = EmptyMap
    /\ an = [w \in {1, 2} |-> [pc |-> "idle"]]
    /\ now = 0
    /\ passes = 0

\* ZoneAnalyzer.__init__; no efficiency query made yet.
NewHistory ==
    /\ za_track_history = EmptyMap
    /\ za_zone_status_history = EmptyMap
    /\ za_pass = [pc |-> "none", n |-> 0, occupancy |-> EmptyMap]
    /\ eff = [op |-> "none", n |-> 0]
    /\ ticks = 0
    /\ purge = [n |-> 0]

\* The delays of _reconnect_with_backoff, in seconds.
Delays == <<1, 2, 4, 8, 16, 32, 60>>

\* Clock ticks in a second, and the reading of time.time() when a run
\* begins: more than a frame interval after the epoch, which is the value 0
\* that __init__ gives last_frame_time.
TicksPerSecond == 2
StartTime == TicksPerSecond

\* VideoStreamWorker.__init__ for a stream with the given rectangle list,
\* auto_reconnect flag and target_fps; the thread has not run yet.
\* interval_fps stands for _process_frames' local frame_interval, which is
\* 1.0 / interval_fps, or 0 when interval_fps is 0.  reads, read_time and
\* accepted record the reads made and the frames accepted.
WorkerAt(zones, auto_reconnect, target_fps) ==
    /\ wk = [pc |-> "loop", ctx |-> "run",
             status |-> "disconnected", stop_event |-> FALSE, cap |-> "none",
             frame_count |-> 0, error_count |-> 0,
             zones |-> 1, auto_reconnect |-> auto_reconnect,
             attempt |-> 0, captured |-> 0,
             frame |-> [id |-> 0, captured_under |-> << >>, timestamp |-> 0],
             pushed |-> << >>,
             last_connect |-> "none", read_failed |-> FALSE,
             target_fps |-> target_fps, interval_fps |-> 0,
             last_frame_time |-> 0,
             reads |-> 0, read_time |-> 0, accepted |-> << >>]
    /\ zone_lists = << Take(zones, 10) >>
    /\ sched = [n |-> 0, log |-> << >>, exhausted |-> FALSE]
    /\ status_query = [n |-> 0]

NewWorkerThread == WorkerAt(<< >>, TRUE, TicksPerSecond)

\* VideoProcessor.__init__ as far as the processing workers, the statistics
\* and the result queries go: both workers about to take a frame, nothing
\* processed, no query made.
NewProcessor ==
    /\ proc = [w \in {1, 2} |-> [pc |-> "get"]]
    /\ stats = [frames_processed |-> 0, recomputed_at |-> {},
                results_pushed |-> 0]
    /\ handled = {}
    /\ res = [op |-> "none", n |-> 0]
    /\ vp = [running |-> TRUE, pc |-> "idle", joining |-> 0, timed_out |-> {}]

InitRegistry ==
    /\ NewRegistry /\ NewPipeline /\ NewAnalyzer /\ NewHistory /\ NewWorkerThread
    /\ NewProcessor

AddStream ==
    /\ \E id \in StreamIds, zones \in ZoneListInputs, start_ok \in BOOLEAN :
          add_stream(id, zones, start_ok)
    /\ UNCHANGED outsideRegistry

RemoveStream ==
    /\ \E id \in StreamIds, joined \in BOOLEAN : remove_stream(id, joined)
    /\ UNCHANGED outsideRegistry

UpdateStream ==
    /\ \E id \in StreamIds, zones \in {{}} \cup {{z} : z \in ZoneListInputs} :
          update_stream(id, zones)
    /\ UNCHANGED outsideRegistry

Shutdown ==
    /\ shutdown
    /\ UNCHANGED outsideRegistry

NextRegistry ==
    \/ AddStream
    \/ RemoveStream
    \/ UpdateStream
    \/ Shutdown

SpecRegistry == InitRegistry /\ [][NextRegistry]_vars

(***************************************************************************)
(* Claims about the registry (checked under SpecRegistry)                   *)
(***************************************************************************)

\* The conditions under which the specification says AddStream fails, stated
\* on the registry before the call and the arguments of the call.
MustReject(reg, run, id, nzones) ==
    \/ ~run
    \/ Cardinality(DOMAIN reg) >= 4
    \/ nzones > 10
    \/ TotalZones(reg) + nzones > 40
    \/ id \in DOMAIN reg

\* C1: whenever AddStream is called while the registry is shutting down, holds
\* 4 streams already, the call carries more than 10 rectangles, the call would
\* push the total past 40, or the id is registered, it returns failure, no
\* worker is constructed or started, and the registry map and the running
\* flag are what they were before the call.
C1_AddStreamRejectedNoEffect ==
    [][ (call'.op = "add_stream"
          /\ MustReject(streams, running, call'.id, call'.nzones))
        => (/\ call'.result = FALSE
            /\ call'.created = FALSE
            /\ streams' = streams
            /\ running' = running) ]_vars

\* C1 witness: an AddStream with a fresh id and two rectangles was rejected
\* because four streams are registered.
C1_Witness ==
    /\ call.op = "add_stream"
    /\ call.result = FALSE
    /\ call.why = "max_streams"
    /\ call.id \notin DOMAIN streams
    /\ call.nzones = 2
    /\ Cardinality(DOMAIN streams) = 4

\* Further rejected calls that are reached: a registered id, too many
\* rectangles, a registry that was shut down.
C1_ReachedExists == call.op = "add_stream" /\ call.why = "exists"
C1_ReachedTooManyZones == call.op = "add_stream" /\ call.why = "too_many_zones"
C1_ReachedShuttingDown == call.op = "add_stream" /\ call.why = "shutting_down"

\* The total-zones test of add_stream never decides a call: with fewer than 4
\* streams of at most 10 rectangles each and at most 10 new ones, the total
\* stays within 40.
TotalZonesCheckNeverDecides == call.why # "total_zones"

\* C2: in every reachable state every stream owns at most 10 rectangles, the
\* rectangles of all registered streams sum to at most 40, and at most 4
\* streams are registered.
C2_RegistryCeilings ==
    /\ \A id \in DOMAIN streams : Len(streams[id].zones) <= 10
    /\ TotalZones(streams) <= 40
    /\ Cardinality(DOMAIN streams) <= 4

\* C2 witness: four streams of ten rectangles each, the last of them brought
\* to ten by a zone update.
C2_Witness ==
    /\ Cardinality(DOMAIN streams) = 4
    /\ TotalZones(streams) = 40
    /\ call.op = "update_stream"
    /\ call.result = TRUE
    /\ call.nzones = 10

\* C20: a Shutdown call returns normally, sets the stop event of every
\* worker registered when it is called, and leaves the registry empty and
\* not running; called right after a Shutdown it leaves the registry and
\* the running flag as they are.
C20_Shutdown ==
    [][ call'.op = "shutdown" =>
          /\ call'.result
          /\ call'.stopped = DOMAIN streams
          /\ streams' = EmptyMap
          /\ running' = FALSE
          /\ (call.op = "shutdown" =>
                 /\ call'.stopped = {}
                 /\ streams' = streams
                 /\ running' = running) ]_vars

\* C20 witness: a Shutdown of a registry of two or more workers has
\* returned; every one of them was signalled and none is registered.
C20_Witness ==
    /\ call.op = "shutdown"
    /\ Cardinality(call.stopped) >= 2
    /\ streams = EmptyMap
    /\ ~running

\* C21: a RemoveStream of a registered id sets that worker's stop event and
\* unregisters it, whether or not the join completed, and leaves every other
\* entry and the running flag as they were; for an unregistered id it
\* returns failure, signals nobody and changes nothing.
C21_RemoveStream ==
    [][ call'.op = "remove_stream" =>
          /\ running' = running
          /\ IF call'.id \in DOMAIN streams
             THEN /\ call'.result
                  /\ call'.stopped = {call'.id}
                  /\ DOMAIN streams' = DOMAIN streams \ {call'.id}
                  /\ \A j \in DOMAIN streams' : streams'[j] = streams[j]
             ELSE /\ ~call'.result
                  /\ call'.stopped = {}
                  /\ streams' = streams ]_vars

\* C21 witness: a stream was removed although its worker had not finished
\* within the join timeout; another stream is still registered.
C21_Witness ==
    /\ call.op = "remove_stream"
    /\ call.result
    /\ ~call.joined
    /\ call.stopped = {call.id}
    /\ call.id \notin DOMAIN streams
    /\ streams # EmptyMap

\* A RemoveStream of an id that is not registered has returned failure.
C21_ReachedNotFound ==
    /\ call.op = "remove_stream"
    /\ ~call.result
    /\ call.why = "not_found"
    /\ streams # EmptyMap

(***************************************************************************)
(*        The frame pipeline: three bounded queues and their threads       *)
(***************************************************************************)

FRAME_QUEUE_MAXSIZE == 100
PROCESSING_QUEUE_MAXSIZE == 1000
RESULTS_QUEUE_MAXSIZE == 1000

\* Loop iterations each thread (stream worker, collector, the processing
\* workers together, the API consumer) starts in one run.
MaxIter == 3

Workers == {1, 2}

\* queue.Queue.full()
Full(q, maxsize) == Len(q) >= maxsize

\* A get that takes the newest item instead of the oldest.
GetNowait_Newest(q) == IF q = << >> THEN q ELSE SubSeq(q, 1, Len(q) - 1)

\* queue.Queue.get_nowait() inside try/except Empty: the head is removed, an
\* empty queue is left as it is.
GetNowait(q) == IF q = << >> THEN q ELSE Tail(q)

\* queue.Queue.put(item) blocks while the queue is full.
CanPut(q, maxsize) == Len(q) < maxsize

Put(q, item) == Append(q, item)

\* The log of puts of queue q after item was put.
Logged(q, item) ==
    IF popped[q] THEN pushlog ELSE [pushlog EXCEPT ![q] = Append(@, item)]

\* A consumer took an item of queue q.
Taken(q) ==
    /\ popped' = [popped EXCEPT ![q] = TRUE]
    /\ pushlog' = [pushlog EXCEPT ![q] = << >>]

\* ---- VideoStreamWorker._process_frames, one stream ----

\* cap.read() returned a frame and the fps control accepted it.  Frames are
\* identified by the order of capture.
SwRead ==
    /\ sw.pc = "read"
    /\ budget.sw > 0
    /\ sw' = [pc |-> "full_check", frame |-> sw.captured + 1,
              captured |-> sw.captured + 1]
    /\ budget' = [budget EXCEPT !.sw = @ - 1]
    /\ UNCHANGED <<frame_queue, processing_queue, results_queue, col, pw,
                   pushlog, popped>>
    /\ UNCHANGED outsidePipeline

\* The full test off by one: the queue counts as full only beyond maxsize.
SwFullCheck_OffByOne ==
    /\ sw.pc = "full_check"
    /\ sw' = [sw EXCEPT !.pc = IF Len(frame_queue) > FRAME_QUEUE_MAXSIZE
                                THEN "drop" ELSE "put"]
    /\ UNCHANGED <<frame_queue, processing_queue, results_queue, col, pw,
                   budget, pushlog, popped>>
    /\ UNCHANGED outsidePipeline

\* if self.frame_queue.full():
SwFullCheck ==
    /\ sw.pc = "full_check"
    /\ sw' = [sw EXCEPT !.pc = IF Full(frame_queue, FRAME_QUEUE_MAXSIZE)
                                THEN "drop" ELSE "put"]
    /\ UNCHANGED <<frame_queue, processing_queue, results_queue, col, pw,
                   budget, pushlog, popped>>
    /\ UNCHANGED outsidePipeline

\* self.frame_queue.get_nowait()  # Remove oldest frame
SwDrop ==
    /\ sw.pc = "drop"
    /\ frame_queue' = GetNowait(frame_queue)
    /\ sw' = [sw EXCEPT !.pc = "put"]
    /\ UNCHANGED <<processing_queue, results_queue, col, pw, budget, pushlog,
                   popped>>
    /\ UNCHANGED outsidePipeline

\* self.frame_queue.put({...})
SwPut ==
    /\ sw.pc = "put"
    /\ CanPut(frame_queue, FRAME_QUEUE_MAXSIZE)
    /\ frame_queue' = Put(frame_queue, sw.frame)
    /\ pushlog' = Logged("frame", sw.frame)
    /\ sw' = [sw EXCEPT !.pc = "read", !.frame = 0]
    /\ UNCHANGED <<processing_queue, results_queue, col, pw, budget, popped>>
    /\ UNCHANGED outsidePipeline

\* ---- VideoProcessor._frame_collector_worker ----

\* while self.running.is_set(), then
\* all_frames = self.video_manager.get_all_frames(): worker.get_frame() takes
\* the head of the stream's queue; with nothing there the pass is empty.
ColCollect ==
    /\ col.pc = "collect"
    /\ vp.running
    /\ budget.col > 0
    /\ frame_queue # << >>
    /\ col' = [pc |-> "full_check", frame |-> Head(frame_queue)]
    /\ frame_queue' = Tail(frame_queue)
    /\ Taken("frame")
    /\ budget' = [budget EXCEPT !.col = @ - 1]
    /\ UNCHANGED <<processing_queue, results_queue, sw, pw>>
    /\ UNCHANGED outsidePipeline

\* if self.processing_queue.full():
ColFullCheck ==
    /\ col.pc = "full_check"
    /\ col' = [col EXCEPT !.pc = IF Full(processing_queue, PROCESSING_QUEUE_MAXSIZE)
                                  THEN "drop" ELSE "put"]
    /\ UNCHANGED <<frame_queue, processing_queue, results_queue, sw, pw,
                   budget, pushlog, popped>>
    /\ UNCHANGED outsidePipeline

\* self.processing_queue.get_nowait()
ColDrop ==
    /\ col.pc = "drop"
    /\ processing_queue' = GetNowait(processing_queue)
    /\ col' = [col EXCEPT !.pc = "put"]
    /\ UNCHANGED <<frame_queue, results_queue, sw, pw, budget, pushlog, popped>>
    /\ UNCHANGED outsidePipeline

\* self.processing_queue.put(frame_data)
ColPut ==
    /\ col.pc = "put"
    /\ CanPut(processing_queue, PROCESSING_QUEUE_MAXSIZE)
    /\ processing_queue' = Put(processing_queue, col.frame)
    /\ pushlog' = Logged("processing", col.frame)
    /\ col' = [pc |-> "collect", frame |-> 0]
    /\ UNCHANGED <<frame_queue, results_queue, sw, pw, budget, popped>>
    /\ UNCHANGED outsidePipeline

\* ---- VideoProcessor._processing_worker, two threads ----

\* while self.running.is_set(), then
\* frame_data = self.processing_queue.get(timeout=0.1); Empty -> continue
PwGet(w) ==
    /\ pw[w].pc = "get"
    /\ vp.running
    /\ budget.pw > 0
    /\ processing_queue # << >>
    /\ pw' = [pw EXCEPT ![w] = [pc |-> "process", item |-> Head(processing_queue)]]
    /\ processing_queue' = Tail(processing_queue)
    /\ Taken("processing")
    /\ budget' = [budget EXCEPT !.pw = @ - 1]
    /\ UNCHANGED <<frame_queue, results_queue, sw, col>>
    /\ UNCHANGED outsidePipeline

\* result = self._process_frame(frame_data); None when processing raised.
PwProcess(w) ==
    /\ pw[w].pc = "process"
    /\ \E ok \in BOOLEAN :
         pw' = [pw EXCEPT ![w] = IF ok THEN [pc |-> "full_check", item |-> pw[w].item]
                                 ELSE [pc |-> "get", item |-> 0]]
    /\ UNCHANGED <<frame_queue, processing_queue, results_queue, sw, col,
                   budget, pushlog, popped>>
    /\ UNCHANGED outsidePipeline

\* if self.results_queue.full():
PwFullCheck(w) ==
    /\ pw[w].pc = "full_check"
    /\ pw' = [pw EXCEPT ![w].pc = IF Full(results_queue, RESULTS_QUEUE_MAXSIZE)
                                   THEN "drop" ELSE "put"]
    /\ UNCHANGED <<frame_queue, processing_queue, results_queue, sw, col,
                   budget, pushlog, popped>>
    /\ UNCHANGED outsidePipeline

\* self.results_queue.get_nowait()  # Drop oldest result
PwDrop(w) ==
    /\ pw[w].pc = "drop"
    /\ results_queue' = GetNowait(results_queue)
    /\ pw' = [pw EXCEPT ![w].pc = "put"]
    /\ UNCHANGED <<frame_queue, processing_queue, sw, col, budget, pushlog,
                   popped>>
    /\ UNCHANGED outsidePipeline

\* self.results_queue.put(result)
PwPut(w) ==
    /\ pw[w].pc = "put"
    /\ CanPut(results_queue, RESULTS_QUEUE_MAXSIZE)
    /\ results_queue' = Put(results_queue, pw[w].item)
    /\ pushlog' = Logged("results", pw[w].item)
    /\ pw' = [pw EXCEPT ![w] = [pc |-> "get", item |-> 0]]
    /\ UNCHANGED <<frame_queue, processing_queue, sw, col, budget, popped>>
    /\ UNCHANGED outsidePipeline

\* ---- VideoProcessor.get_latest_results: one get_nowait of its loop ----
ApiGetResult ==
    /\ budget.api > 0
    /\ results_queue # << >>
    /\ results_queue' = Tail(results_queue)
    /\ Taken("results")
    /\ budget' = [budget EXCEPT !.api = @ - 1]
    /\ UNCHANGED <<frame_queue, processing_queue, sw, col, pw>>
    /\ UNCHANGED outsidePipeline

\* Results waiting when a run starts: none, or one short of the
\* queue's capacity.
ResultBacklogs == {0, RESULTS_QUEUE_MAXSIZE - 1}

\* Frames 1..n in capture order.
Frames(n) == [i \in 1..n |-> i]

\* The pipeline starts empty, or in a state it reaches when a consumer is
\* slower than its producer: n frames captured and (fill = "frame") none
\* collected yet, (fill = "processing") all collected and none processed yet,
\* (fill = "results") all processed and no result fetched yet.
PipelineAt(fill, n) ==
    /\ frame_queue = IF fill = "frame" THEN Frames(n) ELSE << >>
    /\ processing_queue = IF fill = "processing" THEN Frames(n) ELSE << >>
    /\ results_queue = IF fill = "results" THEN Frames(n) ELSE << >>
    /\ sw = [pc |-> "read", frame |-> 0, captured |-> n]
    /\ col = [pc |-> "collect", frame |-> 0]
    /\ pw = [w \in Workers |-> [pc |-> "get", item |-> 0]]
    /\ budget = [t \in {"sw", "col", "pw", "api"} |-> MaxIter]
    /\ pushlog = [q \in {"frame", "processing", "results"} |->
                    IF q = fill THEN Frames(n) ELSE << >>]
    /\ popped = [q \in {"frame", "processing", "results"} |->
                    \/ fill = "processing" /\ q = "frame"
                    \/ fill = "results" /\ q \in {"frame", "processing"}]

InitPipeline ==
    /\ NewRegistry
    /\ NewAnalyzer
    /\ NewHistory
    /\ NewWorkerThread
    /\ NewProcessor
    /\ \/ PipelineAt("none", 0)
       \/ PipelineAt("frame", FRAME_QUEUE_MAXSIZE - 1)
       \/ PipelineAt("processing", PROCESSING_QUEUE_MAXSIZE - 1)
       \/ PipelineAt("results", RESULTS_QUEUE_MAXSIZE - 1)

NextPipeline ==
    \/ SwRead
    \/ SwFullCheck
    \/ SwDrop
    \/ SwPut
    \/ ColCollect
    \/ ColFullCheck
    \/ ColDrop
    \/ ColPut
    \/ \E w \in Workers : PwGet(w)
    \/ \E w \in Workers : PwProcess(w)
    \/ \E w \in Workers : PwFullCheck(w)
    \/ \E w \in Workers : PwDrop(w)
    \/ \E w \in Workers : PwPut(w)
    \/ ApiGetResult

SpecPipeline == InitPipeline /\ [][NextPipeline]_vars

(***************************************************************************)
(*   VideoProcessor.shutdown against the collector and the two processing  *)
(*   workers                                                               *)
(***************************************************************************)

\* The collector's loop test fails: the thread ends.
ColExit ==
    /\ col.pc = "collect"
    /\ ~vp.running
    /\ col' = [col EXCEPT !.pc = "exited"]
    /\ UNCHANGED <<frame_queue, processing_queue, results_queue, sw, pw,
                   budget, pushlog, popped, vp>>
    /\ UNCHANGED <<registryVars, analyzerVars, historyVars, workerVars,
                   processorVars, managerVars>>

\* A processing worker's loop test fails: the thread ends.
PwExit(w) ==
    /\ pw[w].pc = "get"
    /\ ~vp.running
    /\ pw' = [pw EXCEPT ![w].pc = "exited"]
    /\ UNCHANGED <<frame_queue, processing_queue, results_queue, sw, col,
                   budget, pushlog, popped, vp>>
    /\ UNCHANGED <<registryVars, analyzerVars, historyVars, workerVars,
                   processorVars, managerVars>>

\* worker.is_alive() is false.  self.workers holds the threads in the order
\* _start_workers appended them: the collector, Processor-1, Processor-2.
Exited(k) == IF k = 1 THEN col.pc = "exited" ELSE pw[k - 1].pc = "exited"

\* The thread waits inside a put on a full queue.
Blocked(k) ==
    IF k = 1
    THEN col.pc = "put" /\ ~CanPut(processing_queue, PROCESSING_QUEUE_MAXSIZE)
    ELSE pw[k - 1].pc = "put" /\ ~CanPut(results_queue, RESULTS_QUEUE_MAXSIZE)

\* shutdown(): self.running.clear()
VpClear ==
    /\ vp.pc = "idle"
    /\ vp' = [vp EXCEPT !.running = FALSE, !.pc = "join", !.joining = 1]
    /\ UNCHANGED pipelineVars
    /\ UNCHANGED <<registryVars, analyzerVars, historyVars, workerVars,
                   processorVars, managerVars>>

\* worker.join(timeout=5.0) returns: the thread has ended, or five seconds
\* have passed.  A thread that can take its next step reaches its loop test
\* within the five seconds, so the timeout passes only for a thread that
\* waits inside a put.
VpJoin ==
    /\ vp.pc = "join"
    /\ Exited(vp.joining) \/ Blocked(vp.joining)
    /\ vp' = [vp EXCEPT
                !.timed_out = IF Exited(vp.joining) THEN @ ELSE @ \cup {vp.joining},
                !.joining = IF vp.joining = Cardinality(Workers) + 1 THEN 0 ELSE @ + 1,
                !.pc = IF vp.joining = Cardinality(Workers) + 1
                       THEN "clear_processing" ELSE "join"]
    /\ UNCHANGED pipelineVars
    /\ UNCHANGED <<registryVars, analyzerVars, historyVars, workerVars,
                   processorVars, managerVars>>

\* while not self.processing_queue.empty(): self.processing_queue.get_nowait()
VpClearProcessing ==
    /\ vp.pc = "clear_processing"
    /\ IF processing_queue = << >>
       THEN /\ vp' = [vp EXCEPT !.pc = "clear_results"]
            /\ processing_queue' = processing_queue
       ELSE /\ processing_queue' = GetNowait(processing_queue)
            /\ vp' = vp
    /\ UNCHANGED <<frame_queue, results_queue, sw, col, pw, budget, pushlog,
                   popped>>
    /\ UNCHANGED <<registryVars, analyzerVars, historyVars, workerVars,
                   processorVars, managerVars>>

\* while not self.results_queue.empty(): self.results_queue.get_nowait();
\* then shutdown() returns.
VpClearResults ==
    /\ vp.pc = "clear_results"
    /\ IF results_queue = << >>
       THEN /\ vp' = [vp EXCEPT !.pc = "returned"]
            /\ results_queue' = results_queue
       ELSE /\ results_queue' = GetNowait(results_queue)
            /\ vp' = vp
    /\ UNCHANGED <<frame_queue, processing_queue, sw, col, pw, budget, pushlog,
                   popped>>
    /\ UNCHANGED <<registryVars, analyzerVars, historyVars, workerVars,
                   processorVars, managerVars>>

\* Frames waiting in the processing queue when a run starts: a few, or as
\* many as the queue holds.
MaxWaiting == 2
ProcessingBacklogs == {MaxWaiting, PROCESSING_QUEUE_MAXSIZE}

\* A pipeline at work when shutdown() is called: a frame in the stream's
\* queue, frames waiting to be processed, and a results queue that is
\* empty or one short of its capacity.
InitShutdown ==
    /\ NewRegistry
    /\ NewAnalyzer
    /\ NewHistory
    /\ NewWorkerThread
    /\ NewProcessor
    /\ \E m \in ProcessingBacklogs, n \in ResultBacklogs :
          /\ frame_queue = Frames(1)
          /\ processing_queue = Frames(m)
          /\ results_queue = Frames(n)
    /\ sw = [pc |-> "read", frame |-> 0, captured |-> 1]
    /\ col = [pc |-> "collect", frame |-> 0]
    /\ pw = [w \in Workers |-> [pc |-> "get", item |-> 0]]
    /\ budget = [t \in {"sw", "col", "pw", "api"} |-> MaxIter]
    /\ pushlog = [q \in {"frame", "processing", "results"} |-> << >>]
    /\ popped = [q \in {"frame", "processing", "results"} |-> TRUE]

\* The steps of the collector, of a processing worker and of the thread
\* that runs shutdown().
CollectorThread == ColCollect \/ ColFullCheck \/ ColDrop \/ ColPut \/ ColExit

ProcessingThread(w) ==
    PwGet(w) \/ PwProcess(w) \/ PwFullCheck(w) \/ PwDrop(w) \/ PwPut(w) \/ PwExit(w)

ShutdownThread == VpJoin \/ VpClearProcessing \/ VpClearResults

NextShutdown ==
    \/ ColCollect
    \/ ColFullCheck
    \/ ColDrop
    \/ ColPut
    \/ ColExit
    \/ \E w \in Workers : PwGet(w)
    \/ \E w \in Workers : PwProcess(w)
    \/ \E w \in Workers : PwFullCheck(w)
    \/ \E w \in Workers : PwDrop(w)
    \/ \E w \in Workers : PwPut(w)
    \/ \E w \in Workers : PwExit(w)
    \/ VpClear
    \/ VpJoin
    \/ VpClearProcessing
    \/ VpClearResults

\* Every thread that can take a step takes it (detection calls return, the
\* scheduler runs every thread); when shutdown() is called is left open.
SpecShutdown ==
    /\ InitShutdown /\ [][NextShutdown]_vars
    /\ WF_vars(CollectorThread)
    /\ \A w \in Workers : WF_vars(ProcessingThread(w))
    /\ WF_vars(ShutdownThread)

(***************************************************************************)
(* Claims about the pipeline's shutdown (checked under SpecShutdown)       *)
(***************************************************************************)

\* The collector and both processing workers have left their loops.
ThreadsEnded == col.pc = "exited" /\ \A w \in Workers : pw[w].pc = "exited"

\* A step that puts an item into the given queue.
PushesInto(q) == Len(q') > Len(q)

\* C33: after shutdown() has cleared the running flag the collector and both
\* processing workers eventually leave their loops, none of them staying
\* inside a queue operation, and once shutdown() has returned no thread puts
\* anything into the processing queue or the results queue.
C33_ShutdownEndsThreads ==
    /\ ~vp.running ~> ThreadsEnded
    /\ [][vp.pc = "returned" =>
            ~PushesInto(processing_queue) /\ ~PushesInto(results_queue)]_vars

\* The collector leaves its loop, and nothing is put into the processing
\* queue after shutdown() has returned.
CollectorEnds ==
    /\ ~vp.running ~> col.pc = "exited"
    /\ [](vp.running \/ ~Blocked(1))
    /\ [][vp.pc = "returned" => ~PushesInto(processing_queue)]_vars

\* Every join of shutdown() that timed out was on a processing worker.
OnlyProcessingWorkersTimeOut == 1 \notin vp.timed_out

\* While the results queue is not filled up, both workers leave their loops
\* before shutdown() goes on to clear the queues.
WorkersEndUnlessBlocked ==
    (vp.pc \in {"clear_processing", "clear_results", "returned"}
        /\ vp.timed_out = {})
        => ThreadsEnded

\* shutdown() has given up joining a processing worker that waits inside
\* results_queue.put with the flag cleared.
C33_ReachedBlockedWorker ==
    /\ ~vp.running /\ vp.pc = "clear_processing"
    /\ \E w \in Workers : (w + 1) \in vp.timed_out /\ Blocked(w + 1)

\* shutdown() has returned and a result put afterwards lies in the queue.
C33_ReachedPushAfterReturn ==
    /\ vp.pc = "returned"
    /\ results_queue # << >>
    /\ ThreadsEnded

(***************************************************************************)
(*   RectangleZoneAnalyzer, run by the two processing workers              *)
(***************************************************************************)

\* track_id = None: an untracked detection (the tracker's ids start at 1).
NoTrack == 0

\* Analysis passes started in one run.
MaxPasses == 2

\* A tracking: {'bbox': {'x1','y1','x2','y2'}, 'track_id'}
Tracking(id, x1, y1, x2, y2) ==
    [track_id |-> id, bbox |-> [x1 |-> x1, y1 |-> y1, x2 |-> x2, y2 |-> y2]]

\* _get_person_center: ((x1 + x2) / 2, (y1 + y2) / 2).  The division is a
\* float division; the model keeps twice the centre so that halves are exact.
GetPersonCenter2(tracking) ==
    [x2 |-> tracking.bbox.x1 + tracking.bbox.x2,
     y2 |-> tracking.bbox.y1 + tracking.bbox.y2]

\* _is_point_in_rectangle(point, rect) on twice the point:
\* rect.x_min <= x <= rect.x_max and rect.y_min <= y <= rect.y_max
IsPointInRectangle(point2, rect) ==
    /\ 2 * rect.x_min <= point2.x2 /\ point2.x2 <= 2 * rect.x_max
    /\ 2 * rect.y_min <= point2.y2 /\ point2.y2 <= 2 * rect.y_max

\* The status rule with the test for one person taken as "at least one".
ZoneStatus_AtLeastOne(person_count) ==
    IF person_count = 0 THEN "idle"
    ELSE IF person_count >= 1 THEN "work"
    ELSE "other"

\* Determine status: 0=idle, 1=work, >1=other
ZoneStatus(person_count) ==
    IF person_count = 0 THEN "idle"
    ELSE IF person_count = 1 THEN "work"
    ELSE "other"

\* The tracking loop without its test for a missing track id.
IsUntracked_Never(tracking) == FALSE

\* tracking.get('track_id') is None
\* (the untracked detection is skipped by the tracking loop)
IsUntracked(tracking) == tracking.track_id = NoTrack

\* _process_frame: person_count=len(trackings)
PersonCount(trackings) == Len(trackings)

\* total_persons_detected: len([t for t in trackings if t.get('track_id') is not None])
TotalPersonsDetected(trackings) ==
    Cardinality({i \in DOMAIN trackings : ~IsUntracked(trackings[i])})

\* dict.setdefault-like: `if k not in d: d[k] = v`
WithKey(d, k, v) == IF k \in DOMAIN d THEN d ELSE Register(d, k, v)

\* The entries kept per track and per zone.
TRACK_HISTORY_MAX == 100
STATUS_HISTORY_MAX == 1000

\* A movement history that keeps its first 100 entries.
UpdateTrackHistory_KeepsOldest(th, stream_id, track_id, zone_id, timestamp) ==
    LET th1 == WithKey(th, stream_id, EmptyMap)
        per == WithKey(th1[stream_id], track_id, << >>)
        appended == Append(per[track_id],
                           [zone_id |-> zone_id, timestamp |-> timestamp])
    IN  [th1 EXCEPT ![stream_id] =
            [per EXCEPT ![track_id] = Take(appended, TRACK_HISTORY_MAX)]]

\* _update_track_history(stream_id, track_id, zone_id, timestamp)
UpdateTrackHistory(th, stream_id, track_id, zone_id, timestamp) ==
    LET th1 == WithKey(th, stream_id, EmptyMap)
        per == WithKey(th1[stream_id], track_id, << >>)
        appended == Append(per[track_id],
                           [zone_id |-> zone_id, timestamp |-> timestamp])
    IN  [th1 EXCEPT ![stream_id] =
            [per EXCEPT ![track_id] =
                IF Len(appended) > TRACK_HISTORY_MAX
                THEN LastN(appended, TRACK_HISTORY_MAX) ELSE appended]]

\* _update_zone_status_history, up to the test: the two dict entries exist.
EnsureZoneHistory(zsh, stream_id, zone_id) ==
    LET z1 == WithKey(zsh, stream_id, EmptyMap)
    IN  [z1 EXCEPT ![stream_id] = WithKey(z1[stream_id], zone_id, << >>)]

\* if not history or history[-1]['status'] != status
StatusChanged(history, status) ==
    history = << >> \/ history[Len(history)].status # status

\* A status history keyed by zone only: the change is recorded for the zone
\* of that id in every stream.
AppendZoneStatus_EveryStream(zsh, stream_id, zone_id, status, timestamp) ==
    [s \in DOMAIN zsh |->
        [z \in DOMAIN zsh[s] |->
            IF z = zone_id
            THEN Append(zsh[s][z], [status |-> status, timestamp |-> timestamp])
            ELSE zsh[s][z]]]

\* history.append({...}) and the cut to the last 1000 entries.  The cut
\* rebinds the dict entry to a copy; it is taken in the same step as the
\* append.
AppendZoneStatus(zsh, stream_id, zone_id, status, timestamp) ==
    LET appended == Append(zsh[stream_id][zone_id],
                           [status |-> status, timestamp |-> timestamp])
    IN  [zsh EXCEPT ![stream_id][zone_id] =
            IF Len(appended) > STATUS_HISTORY_MAX
            THEN LastN(appended, STATUS_HISTORY_MAX) ELSE appended]

RECURSIVE NextTracked(_, _)
\* The first index >= i of a tracking with a track id, Len + 1 when none.
NextTracked(trackings, i) ==
    IF i > Len(trackings) THEN i
    ELSE IF IsUntracked(trackings[i]) THEN NextTracked(trackings, i + 1)
    ELSE i

\* The streams the frames come from and the zone snapshot their frames carry
\* (quick_test.py: two rectangles sharing the edge x = 100; the second stream
\* reuses zone id 1).
AnalyzerStreams == {"s1", "s2"}

ZonesOf(stream_id) ==
    IF stream_id = "s1"
    THEN << Rect(0, 0, 100, 100, 1), Rect(100, 0, 200, 100, 2) >>
    ELSE << Rect(0, 0, 100, 100, 1) >>

\* What the detection service returns for a frame: nobody; one tracked person
\* centred at (55,55); two tracked persons there; the same track id twice;
\* an untracked detection there; an untracked detection and a tracked person
\* centred at (100.5,55); a tracked person centred on the shared edge
\* (100,50).
TrackingInputs ==
    { << >>,
      << Tracking(5, 50, 50, 60, 60) >>,
      << Tracking(5, 50, 50, 60, 60), Tracking(7, 50, 50, 60, 60) >>,
      << Tracking(5, 50, 50, 60, 60), Tracking(5, 50, 50, 60, 60) >>,
      << Tracking(NoTrack, 50, 50, 60, 60) >>,
      << Tracking(NoTrack, 50, 50, 60, 60), Tracking(7, 100, 50, 101, 60) >>,
      << Tracking(7, 95, 45, 105, 55) >> }

\* zone_occupancy = {rect.zone_id: [] for rect in rectangles}
EmptyOccupancy(rectangles) ==
    [z \in {rectangles[k].zone_id : k \in DOMAIN rectangles} |-> << >>]

\* The position of a pass after the tracking loop handled (i, j): the next
\* rectangle, the next tracked tracking, or the status loop.
AfterPair(pass, i, j) ==
    IF j < Len(pass.rectangles)
    THEN [pass EXCEPT !.j = j + 1]
    ELSE LET k == NextTracked(pass.trackings, i + 1)
         IN  IF k <= Len(pass.trackings)
             THEN [pass EXCEPT !.i = k, !.j = 1]
             ELSE [pass EXCEPT !.pc = "status", !.i = k, !.j = 1]

\* The position of a pass after the status loop handled rectangle j.
AfterZone(pass, j) ==
    IF j < Len(pass.rectangles)
    THEN [pass EXCEPT !.pc = "status", !.j = j + 1]
    ELSE [pass EXCEPT !.pc = "done", !.j = j + 1]

\* _process_frame up to the start of analyze_trackings_in_rectangles: the
\* detection service returned `trackings` for a frame of stream_id, the pass
\* reads the clock and initialises the occupancy.  The worker is in no pass:
\* it has not run one yet or its last one returned.
Begin(w, stream_id, trackings) ==
    /\ an[w].pc \in {"idle", "done"}
    /\ passes < MaxPasses
    /\ LET rectangles == ZonesOf(stream_id)
           first == NextTracked(trackings, 1)
       IN  an' = [an EXCEPT ![w] =
                [pc |-> IF first <= Len(trackings) THEN "track" ELSE "status",
                 stream_id |-> stream_id,
                 trackings |-> trackings,
                 rectangles |-> rectangles,
                 timestamp |-> now,
                 i |-> first,
                 j |-> 1,
                 occ |-> EmptyOccupancy(rectangles),
                 status |-> "none"]]
    /\ now' = now + 1
    /\ passes' = passes + 1
    /\ UNCHANGED <<zone_status_history, track_history>>
    /\ UNCHANGED outsideAnalyzer

\* One round of the inner loop: tracking i against rectangle j.
TrackStep(w) ==
    /\ an[w].pc = "track"
    /\ LET pass == an[w]
           tracking == pass.trackings[pass.i]
           rect == pass.rectangles[pass.j]
           inside == IsPointInRectangle(GetPersonCenter2(tracking), rect)
           pass1 == IF inside
                    THEN [pass EXCEPT !.occ[rect.zone_id] =
                                         Append(@, tracking.track_id)]
                    ELSE pass
       IN  /\ an' = [an EXCEPT ![w] = AfterPair(pass1, pass.i, pass.j)]
           /\ track_history' =
                 IF inside
                 THEN UpdateTrackHistory(track_history, pass.stream_id,
                                         tracking.track_id, rect.zone_id,
                                         pass.timestamp)
                 ELSE track_history
    /\ UNCHANGED <<zone_status_history, now, passes>>
    /\ UNCHANGED outsideAnalyzer

\* One round of the status loop up to the test of _update_zone_status_history.
StatusCheck(w) ==
    /\ an[w].pc = "status"
    /\ LET pass == an[w]
           rect == pass.rectangles[pass.j]
           person_count == Len(pass.occ[rect.zone_id])
           status == ZoneStatus(person_count)
           zsh == EnsureZoneHistory(zone_status_history, pass.stream_id,
                                    rect.zone_id)
       IN  /\ zone_status_history' = zsh
           /\ an' = [an EXCEPT ![w] =
                 IF StatusChanged(zsh[pass.stream_id][rect.zone_id], status)
                 THEN [pass EXCEPT !.pc = "append", !.status = status]
                 ELSE AfterZone(pass, pass.j)]
    /\ UNCHANGED <<track_history, now, passes>>
    /\ UNCHANGED outsideAnalyzer

\* The append that follows a test that found the status changed.
StatusAppend(w) ==
    /\ an[w].pc = "append"
    /\ LET pass == an[w]
           rect == pass.rectangles[pass.j]
       IN  /\ zone_status_history' =
                 AppendZoneStatus(zone_status_history, pass.stream_id,
                                  rect.zone_id, pass.status, pass.timestamp)
           /\ an' = [an EXCEPT ![w] = AfterZone(pass, pass.j)]
    /\ UNCHANGED <<track_history, now, passes>>
    /\ UNCHANGED outsideAnalyzer

\* zone_results[rect.zone_id] of a pass, for the rectangle at index k.
ZoneResult(pass, k) ==
    LET zone_id == pass.rectangles[k].zone_id
        person_count == Len(pass.occ[zone_id])
    IN  [zone_id |-> zone_id,
         person_count |-> person_count,
         status |-> ZoneStatus(person_count),
         track_ids |-> pass.occ[zone_id]]

\* The ProcessingResult fields of a finished pass.
ProcessingResult(pass) ==
    [stream_id |-> pass.stream_id,
     person_count |-> PersonCount(pass.trackings),
     total_persons_detected |-> TotalPersonsDetected(pass.trackings),
     zones |-> [k \in DOMAIN pass.rectangles |-> ZoneResult(pass, k)]]

InitAnalyzer ==
    /\ NewRegistry /\ NewPipeline /\ NewAnalyzer /\ NewHistory /\ NewWorkerThread
    /\ NewProcessor

NextAnalyzer ==
    \/ \E w \in Workers, stream_id \in AnalyzerStreams, trackings \in TrackingInputs :
          Begin(w, stream_id, trackings)
    \/ \E w \in Workers : TrackStep(w)
    \/ \E w \in Workers : StatusCheck(w)
    \/ \E w \in Workers : StatusAppend(w)

SpecAnalyzer == InitAnalyzer /\ [][NextAnalyzer]_vars

(***************************************************************************)
(*   The analyzer with long histories: passes one after the other          *)
(***************************************************************************)

\* A movement history of n entries and a status history of n changes, as n
\* passes a tick apart leave them: one entry a pass, the status alternating.
FilledTrackHistory(n) == [i \in 1 .. n |-> [zone_id |-> 1, timestamp |-> i]]

FilledStatusHistory(n) ==
    [i \in 1 .. n |-> [status |-> IF i % 2 = 1 THEN "work" ELSE "idle",
                       timestamp |-> i]]

\* The lengths the histories have when a run starts: one short of the cap,
\* or at the cap.
MovementHistoryLengths == {TRACK_HISTORY_MAX - 1, TRACK_HISTORY_MAX}
StatusHistoryLengths == {STATUS_HISTORY_MAX - 1, STATUS_HISTORY_MAX}

\* The analyzer after many passes over stream s1, whose zone 1 track 5 has
\* kept entering and leaving; no pass is running.
InitCaps ==
    /\ NewRegistry /\ NewPipeline /\ NewHistory /\ NewWorkerThread
    /\ NewProcessor
    /\ \E m \in MovementHistoryLengths, n \in StatusHistoryLengths :
          /\ track_history =
                Register(EmptyMap, "s1",
                         Register(EmptyMap, 5, FilledTrackHistory(m)))
          /\ zone_status_history =
                Register(EmptyMap, "s1",
                         Register(Register(EmptyMap, 1, FilledStatusHistory(n)),
                                  2, FilledStatusHistory(1)))
    /\ an = [w \in Workers |-> [pc |-> "idle"]]
    /\ now = STATUS_HISTORY_MAX + 1
    /\ passes = 0

\* Passes run one after the other, by processing worker 1.
NextCaps ==
    \/ \E stream_id \in AnalyzerStreams, trackings \in TrackingInputs :
          Begin(1, stream_id, trackings)
    \/ TrackStep(1)
    \/ StatusCheck(1)
    \/ StatusAppend(1)

SpecCaps == InitCaps /\ [][NextCaps]_vars

\* Every list of a two-level history (stream -> key -> list) has at most
\* cap entries.
Capped(history, cap) ==
    \A s \in DOMAIN history : \A k \in DOMAIN history[s] :
        Len(history[s][k]) <= cap

\* A list that changed got one entry at its end and lost nothing, or, being
\* at the cap, lost its oldest entry.
OldestDropped(old, new, cap) ==
    new # old =>
        /\ new # << >>
        /\ \/ Len(old) < cap /\ new = Append(old, new[Len(new)])
           \/ Len(old) = cap /\ new = Append(Tail(old), new[Len(new)])

\* The same for every list a two-level history had before the step.
HistoryDropsOldest(before, after, cap) ==
    \A s \in DOMAIN before : \A k \in DOMAIN before[s] :
        /\ s \in DOMAIN after /\ k \in DOMAIN after[s]
        /\ OldestDropped(before[s][k], after[s][k], cap)

\* What the last pass recorded is at the end of its lists: the movement of
\* every track it found in a zone, and the status of every zone.
NewestKept ==
    an[1].pc = "done" =>
        LET pass == an[1]
        IN  \A z \in DOMAIN pass.occ :
              /\ \A i \in DOMAIN pass.occ[z] :
                    LET h == track_history[pass.stream_id][pass.occ[z][i]]
                    IN  h[Len(h)].timestamp = pass.timestamp
              /\ LET h == zone_status_history[pass.stream_id][z]
                 IN  h[Len(h)].status = ZoneStatus(Len(pass.occ[z]))

\* C35: in the pipeline analyzer, after any sequence of passes the movement
\* history of each (stream, track) holds at most 100 entries and the status
\* history of each (stream, zone) at most 1000, and a list at its cap loses
\* its oldest entry when it gets a new one.
C35_HistoriesCapped ==
    /\ [](Capped(track_history, TRACK_HISTORY_MAX)
            /\ Capped(zone_status_history, STATUS_HISTORY_MAX)
            /\ NewestKept)
    /\ [][/\ HistoryDropsOldest(track_history, track_history',
                                TRACK_HISTORY_MAX)
          /\ HistoryDropsOldest(zone_status_history, zone_status_history',
                                STATUS_HISTORY_MAX)]_vars

\* C35 witness: both lists are at their caps after two more entries each,
\* and the entries lost are the oldest ones.
C35_Witness ==
    /\ an[1].pc = "done" /\ passes = MaxPasses
    /\ LET th == track_history["s1"][5]
           zsh == zone_status_history["s1"][1]
       IN  /\ Len(th) = TRACK_HISTORY_MAX
           /\ th[Len(th)].timestamp > STATUS_HISTORY_MAX
           /\ th[1].timestamp > 1
           /\ Len(zsh) = STATUS_HISTORY_MAX
           /\ zsh[Len(zsh)].timestamp > STATUS_HISTORY_MAX
           /\ zsh[1].timestamp > 1

(***************************************************************************)
(* Claims about the analyzer (checked under SpecAnalyzer)                  *)
(***************************************************************************)

Statuses == {"idle", "work", "other"}

\* The passes that have returned, with what they returned.
Returned == {w \in Workers : an[w].pc = "done"}
ResultOf(w) == ProcessingResult(an[w])

\* The indices of the trackings of a pass that carry a track id and whose
\* bounding-box midpoint lies in rectangle k (bounds included).
TrackedInside(pass, k) ==
    {i \in DOMAIN pass.trackings :
        /\ pass.trackings[i].track_id # NoTrack
        /\ LET b == pass.trackings[i].bbox
               r == pass.rectangles[k]
           IN  /\ 2 * r.x_min <= b.x1 + b.x2 /\ b.x1 + b.x2 <= 2 * r.x_max
               /\ 2 * r.y_min <= b.y1 + b.y2 /\ b.y1 + b.y2 <= 2 * r.y_max}

\* C6: for every zone of every analysis pass the reported status is decided
\* by the reported occupant count alone: idle for 0, work for 1, other for 2
\* or more; no other status is reported, is about to be recorded, or is in a
\* status history.
C6_StatusFromCount ==
    /\ \A w \in Returned : \A k \in DOMAIN ResultOf(w).zones :
          LET r == ResultOf(w).zones[k]
          IN  /\ r.person_count = 0 => r.status = "idle"
              /\ r.person_count = 1 => r.status = "work"
              /\ r.person_count >= 2 => r.status = "other"
              /\ r.status \in Statuses
    /\ \A w \in Workers : an[w].pc = "append" => an[w].status \in Statuses
    /\ \A s \in DOMAIN zone_status_history :
          \A z \in DOMAIN zone_status_history[s] :
             \A n \in DOMAIN zone_status_history[s][z] :
                zone_status_history[s][z][n].status \in Statuses

\* C6 witness: a pass over stream s1 returned zone 1 "other" with two
\* occupants and zone 2 "idle" with none, another pass returned zone 1 "work"
\* with one, and all three statuses are in the history of zone 1.
C6_Witness ==
    /\ an[1].pc = "done" /\ an[1].stream_id = "s1"
    /\ ResultOf(1).zones[1].person_count = 2
    /\ ResultOf(1).zones[1].status = "other"
    /\ ResultOf(1).zones[2].person_count = 0
    /\ ResultOf(1).zones[2].status = "idle"
    /\ an[2].pc = "done" /\ an[2].stream_id = "s1"
    /\ ResultOf(2).zones[1].person_count = 1
    /\ ResultOf(2).zones[1].status = "work"
    /\ "s1" \in DOMAIN zone_status_history
    /\ 1 \in DOMAIN zone_status_history["s1"]
    /\ Len(zone_status_history["s1"][1]) = 2

\* C7: for every input, a pass reports for each zone the set of distinct
\* track ids whose bounding-box midpoint lies in the zone, and the zone's
\* person count and status come from the size of that set.
C7_OccupancyIsSetOfTracks ==
    \A w \in Returned : \A k \in DOMAIN ResultOf(w).zones :
        LET r == ResultOf(w).zones[k]
            ids == {an[w].trackings[i].track_id : i \in TrackedInside(an[w], k)}
        IN  /\ {r.track_ids[n] : n \in DOMAIN r.track_ids} = ids
            /\ r.person_count = Cardinality(ids)
            /\ r.status = (IF Cardinality(ids) = 0 THEN "idle"
                            ELSE IF Cardinality(ids) = 1 THEN "work"
                            ELSE "other")

\* C8: a detection without a track id is in no zone's occupant list, leaves
\* every zone's status what the tracked detections alone make it, has no
\* movement history, and is counted in the result's person_count.
C8_UntrackedExcluded ==
    /\ \A w \in Workers : an[w].pc # "idle" =>
          \A z \in DOMAIN an[w].occ : \A n \in DOMAIN an[w].occ[z] :
             an[w].occ[z][n] # NoTrack
    /\ \A s \in DOMAIN track_history : NoTrack \notin DOMAIN track_history[s]
    /\ \A w \in Returned :
          /\ \A k \in DOMAIN ResultOf(w).zones :
                LET c == Cardinality(TrackedInside(an[w], k))
                IN  /\ ResultOf(w).zones[k].person_count = c
                    /\ ResultOf(w).zones[k].status =
                          (IF c = 0 THEN "idle" ELSE IF c = 1 THEN "work" ELSE "other")
          /\ ResultOf(w).person_count = Len(an[w].trackings)

\* C8 witness: a pass over an untracked detection centred in zone 1 and a
\* tracked person in zone 2 returned: zone 1 idle and empty, zone 2 work,
\* person_count 2, one person with a track id.
C8_Witness ==
    /\ an[1].pc = "done" /\ an[1].stream_id = "s1"
    /\ Len(an[1].trackings) = 2
    /\ an[1].trackings[1].track_id = NoTrack
    /\ TrackedInside(an[1], 1) = {}
    /\ ResultOf(1).zones[1].status = "idle"
    /\ ResultOf(1).zones[1].track_ids = << >>
    /\ ResultOf(1).zones[2].status = "work"
    /\ ResultOf(1).person_count = 2
    /\ ResultOf(1).total_persons_detected = 1

\* C9: no status history holds two adjacent entries with the same status.
C9_NoAdjacentEqualStatus ==
    \A s \in DOMAIN zone_status_history :
       \A z \in DOMAIN zone_status_history[s] :
          LET h == zone_status_history[s][z]
          IN  \A n \in 1..(Len(h) - 1) : h[n].status # h[n + 1].status

\* A worker is in the middle of _update_zone_status_history: its test found
\* a change and its append has not happened yet.
InStatusUpdate(w) == an[w].pc = "append"

\* C10: no two processing workers are at the same time inside the history
\* update of Analyze for the same stream.
C10_HistoryUpdateSerialized ==
    \A w1 \in Workers, w2 \in Workers :
        (w1 # w2 /\ InStatusUpdate(w1) /\ InStatusUpdate(w2))
            => an[w1].stream_id # an[w2].stream_id

\* The entries of a history list are in non-decreasing timestamp order.
TimeOrdered(h) ==
    \A n \in 1..(Len(h) - 1) : h[n].timestamp <= h[n + 1].timestamp

\* C11: every zone's status history and every track's movement history is
\* ordered by non-decreasing timestamp, also when the two processing workers
\* analyse frames of one stream at the same time.
C11_HistoriesTimeOrdered ==
    /\ \A s \in DOMAIN zone_status_history :
          \A z \in DOMAIN zone_status_history[s] :
             TimeOrdered(zone_status_history[s][z])
    /\ \A s \in DOMAIN track_history :
          \A t \in DOMAIN track_history[s] :
             TimeOrdered(track_history[s][t])

\* The same order for the movement histories alone.
C11_ReachedTrackDisorder ==
    \E s \in DOMAIN track_history : \E t \in DOMAIN track_history[s] :
        ~TimeOrdered(track_history[s][t])

\* Processing worker w takes a step of its running pass.
PassStep(w) ==
    an[w].pc \in {"track", "status", "append"} /\ an'[w] # an[w]

\* What a two-level history holds for the streams other than stream_id is
\* the same before and after the step.
OtherStreamsKept(before, after, stream_id) ==
    \A other \in AnalyzerStreams \ {stream_id} :
        /\ (other \in DOMAIN after) = (other \in DOMAIN before)
        /\ other \in DOMAIN before => after[other] = before[other]

\* C36: a pass for one stream leaves the status history and the movement
\* history of every other stream as they are, also when the streams use the
\* same zone ids and the detection service reports the same track ids.
C36_PassTouchesOwnStreamOnly ==
    [][\A w \in Workers :
          PassStep(w) =>
              /\ OtherStreamsKept(track_history, track_history',
                                  an[w].stream_id)
              /\ OtherStreamsKept(zone_status_history, zone_status_history',
                                  an[w].stream_id)]_vars

\* C36 witness: a pass for s1 ran after a pass for s2 with the same track
\* in the zone of the same id; each stream has its own entry.
C36_Witness ==
    /\ \A w \in Workers : an[w].pc = "done"
    /\ an[1].stream_id = "s1" /\ an[2].stream_id = "s2"
    /\ an[1].timestamp > an[2].timestamp
    /\ DOMAIN track_history = AnalyzerStreams
    /\ \A s \in AnalyzerStreams :
          /\ 5 \in DOMAIN track_history[s]
          /\ Len(track_history[s][5]) = 1
          /\ track_history[s][5][1].zone_id = 1
          /\ 1 \in DOMAIN zone_status_history[s]
          /\ Len(zone_status_history[s][1]) = 1
    /\ track_history["s2"][5][1].timestamp = an[2].timestamp
    /\ zone_status_history["s2"][1][1].timestamp = an[2].timestamp
    /\ track_history["s1"][5][1].timestamp = an[1].timestamp

(***************************************************************************)
(* Claims about the bounded queues (checked under SpecPipeline)            *)
(***************************************************************************)

\* No producer of the queue is between its full test and its put.
NoPushInProgress(q) ==
    CASE q = "frame" -> sw.pc = "read"
      [] q = "processing" -> col.pc = "collect"
      [] q = "results" -> \A w \in Workers : pw[w].pc \in {"get", "process"}

\* After K+1 completed puts into queue q (contents `queue`, capacity K), none
\* in progress and no consumer get: K items, all but the first put, in order.
DropOldestAfterOverflow(q, queue, K) ==
    (~popped[q] /\ NoPushInProgress(q) /\ Len(pushlog[q]) = K + 1)
        => (/\ Len(queue) = K
            /\ queue = Tail(pushlog[q])
            /\ \A i \in 1..K : queue[i] # pushlog[q][1])

\* C3: no bounded queue ever holds more than its capacity (frame queue 100,
\* processing and results queue 1000), and after K+1 pushes with no
\* intervening pop a queue holds exactly K items: the first pushed item is
\* absent and the other K are present in push order.
C3_BoundedDropOldest ==
    /\ Len(frame_queue) <= 100
    /\ Len(processing_queue) <= 1000
    /\ Len(results_queue) <= 1000
    /\ DropOldestAfterOverflow("frame", frame_queue, 100)
    /\ DropOldestAfterOverflow("processing", processing_queue, 1000)
    /\ DropOldestAfterOverflow("results", results_queue, 1000)

\* C3 witness (scenario D): 101 frames were pushed into the per-stream queue
\* and none taken; it holds 100 frames, frame 1 is gone, frame 101 is last.
C3_Witness ==
    /\ ~popped["frame"]
    /\ sw.pc = "read"
    /\ Len(pushlog["frame"]) = 101
    /\ Len(frame_queue) = 100
    /\ frame_queue[1] = 2
    /\ frame_queue[100] = 101

\* The same overflow is reached on the processing and the results queue.
C3_ReachedProcessing ==
    ~popped["processing"] /\ col.pc = "collect" /\ Len(pushlog["processing"]) = 1001
C3_ReachedResults ==
    /\ ~popped["results"] /\ NoPushInProgress("results")
    /\ Len(pushlog["results"]) = 1001

\* C4: a processing worker's put into the results queue never has to wait:
\* whenever a worker stands at results_queue.put the queue has a free slot.
C4_ResultsPutNeverBlocks ==
    \A w \in Workers : pw[w].pc = "put" => CanPut(results_queue, RESULTS_QUEUE_MAXSIZE)

\* C5: the stream worker's put into its frame queue and the collector's put
\* into the processing queue never have to wait: whenever either stands at
\* its put, after the full test and the drop, the queue has a free slot.
C5_SingleProducerPutNeverBlocks ==
    /\ sw.pc = "put" => CanPut(frame_queue, FRAME_QUEUE_MAXSIZE)
    /\ col.pc = "put" => CanPut(processing_queue, PROCESSING_QUEUE_MAXSIZE)

\* C5 witness: the stream worker found its queue full, dropped the oldest
\* frame (no consumer has taken one) and stands at the put with 99 frames
\* queued.
C5_Witness ==
    /\ sw.pc = "put"
    /\ ~popped["frame"]
    /\ Len(frame_queue) = FRAME_QUEUE_MAXSIZE - 1
    /\ frame_queue[1] = 2

\* The collector reaches its put after dropping from a full processing queue.
C5_ReachedCollectorDrop ==
    /\ col.pc = "put"
    /\ ~popped["processing"]
    /\ Len(processing_queue) = PROCESSING_QUEUE_MAXSIZE - 1
    /\ processing_queue[1] = 2

(***************************************************************************)
(*  The histories over time: the clock, ZoneAnalyzer, the efficiency query *)
(***************************************************************************)

\* One unit of the clock is one minute.
\* timedelta(hours=1): the age cutoff of ZoneAnalyzer's movement history
TRACK_RETENTION == 60
\* timedelta(hours=24): the age cutoff of ZoneAnalyzer's status history
STATUS_RETENTION == 1440

\* Clock advances, ZoneAnalyzer passes and efficiency queries in one run.
MaxTicks == 1
MaxZaPasses == 2
MaxQueries == 1

\* Time passes between two steps: one of the retention windows.  (Every
\* pass also takes a minute of its own.)
ClockSteps == {TRACK_RETENTION, STATUS_RETENTION}

Tick(dt) ==
    /\ ticks < MaxTicks
    /\ now' = now + dt
    /\ ticks' = ticks + 1
    /\ UNCHANGED <<zone_status_history, track_history, an, passes>>
    /\ UNCHANGED <<za_track_history, za_zone_status_history, za_pass, eff, purge>>
    /\ UNCHANGED registryVars
    /\ UNCHANGED pipelineVars
    /\ UNCHANGED workerVars
    /\ UNCHANGED <<processorVars, shutdownVars, managerVars>>

\* [entry for entry in history if entry["timestamp"] > cutoff_time]
NewerThan(history, cutoff_time) ==
    SelectSeq(history, LAMBDA entry : entry.timestamp > cutoff_time)

\* A zone definition of the detection API: {"id", "coordinates": {x_min, ...}}
ZaZone(rect) ==
    [id |-> rect.zone_id,
     coordinates |-> [x_min |-> rect.x_min, y_min |-> rect.y_min,
                      x_max |-> rect.x_max, y_max |-> rect.y_max]]

\* ZoneAnalyzer._is_point_in_zone for the rectangle format, on twice the point.
ZaIsPointInZone(point2, zone_coordinates) ==
    /\ 2 * zone_coordinates.x_min <= point2.x2
    /\ point2.x2 <= 2 * zone_coordinates.x_max
    /\ 2 * zone_coordinates.y_min <= point2.y2
    /\ point2.y2 <= 2 * zone_coordinates.y_max

\* ZoneAnalyzer._update_track_history(track_id, zone_id, timestamp): append,
\* then keep the entries of the last hour.
ZaUpdateTrackHistory(th, track_id, zone_id, timestamp) ==
    LET th1 == WithKey(th, track_id, << >>)
        appended == Append(th1[track_id],
                           [zone_id |-> zone_id, timestamp |-> timestamp])
    IN  [th1 EXCEPT ![track_id] = NewerThan(appended, timestamp - TRACK_RETENTION)]

\* ZoneAnalyzer._update_zone_status_history(zone_id, status, timestamp); the
\* recorded person_count is read from current_zone_occupancy, which still
\* holds the occupancy of the pass before.
ZaUpdateZoneStatusHistory(zsh, occupancy, zone_id, status, timestamp) ==
    LET z1 == WithKey(zsh, zone_id, << >>)
        person_count == IF zone_id \in DOMAIN occupancy
                        THEN Cardinality(occupancy[zone_id]) ELSE 0
        appended == Append(z1[zone_id],
                           [status |-> status, timestamp |-> timestamp,
                            person_count |-> person_count])
    IN  IF StatusChanged(z1[zone_id], status)
        THEN [z1 EXCEPT ![zone_id] =
                 NewerThan(appended, timestamp - STATUS_RETENTION)]
        ELSE z1

\* current_occupancy after the tracking loop: zone id -> set of track ids
ZaOccupancy(trackings, zones) ==
    [z \in {zones[k].id : k \in DOMAIN zones} |->
        {trackings[i].track_id : i \in
            {i \in DOMAIN trackings :
                /\ ~IsUntracked(trackings[i])
                /\ \E k \in DOMAIN zones :
                      /\ zones[k].id = z
                      /\ ZaIsPointInZone(GetPersonCenter2(trackings[i]),
                                         zones[k].coordinates)}}]

RECURSIVE ZaTrackLoop(_, _, _, _, _)
\* The tracking loop of analyze_detections_in_zones from its n-th round on;
\* the rounds are the pairs (tracking, zone) in the order of the two loops.
ZaTrackLoop(th, trackings, zones, timestamp, n) ==
    IF n > Len(trackings) * Len(zones) THEN th
    ELSE LET tracking == trackings[((n - 1) \div Len(zones)) + 1]
             zone == zones[((n - 1) % Len(zones)) + 1]
             hit == /\ ~IsUntracked(tracking)
                    /\ ZaIsPointInZone(GetPersonCenter2(tracking),
                                       zone.coordinates)
         IN  ZaTrackLoop(IF hit
                         THEN ZaUpdateTrackHistory(th, tracking.track_id,
                                                   zone.id, timestamp)
                         ELSE th,
                         trackings, zones, timestamp, n + 1)

RECURSIVE ZaStatusLoop(_, _, _, _, _, _)
\* The status loop of analyze_detections_in_zones from zone n on.
ZaStatusLoop(zsh, before, current, zones, timestamp, n) ==
    IF n > Len(zones) THEN zsh
    ELSE LET zone_id == zones[n].id
             status == ZoneStatus(Cardinality(current[zone_id]))
         IN  ZaStatusLoop(ZaUpdateZoneStatusHistory(zsh, before, zone_id,
                                                    status, timestamp),
                          before, current, zones, timestamp, n + 1)

\* ZoneAnalyzer.analyze_detections_in_zones(trackings, zones), one call.
ZaAnalyze(trackings, zones) ==
    /\ za_pass.n < MaxZaPasses
    /\ LET limited_zones == Take(zones, 10)
           current_occupancy == ZaOccupancy(trackings, limited_zones)
       IN  /\ za_track_history' =
                 ZaTrackLoop(za_track_history, trackings, limited_zones, now, 1)
           /\ za_zone_status_history' =
                 ZaStatusLoop(za_zone_status_history, za_pass.occupancy,
                              current_occupancy, limited_zones, now, 1)
           /\ za_pass' = [pc |-> "done", n |-> za_pass.n + 1,
                          timestamp |-> now, trackings |-> trackings,
                          zones |-> limited_zones,
                          occupancy |-> current_occupancy]
    /\ now' = now + 1
    /\ UNCHANGED <<zone_status_history, track_history, an, passes>>
    /\ UNCHANGED <<eff, ticks, purge>>
    /\ UNCHANGED registryVars
    /\ UNCHANGED pipelineVars
    /\ UNCHANGED workerVars
    /\ UNCHANGED <<processorVars, shutdownVars, managerVars>>

\* clear_old_tracking_data calls made in one run.
MaxPurges == 1

\* The hours_to_keep passed to clear_old_tracking_data.
HoursToKeepInputs == {0, 1, 24}

\* timedelta(hours = h) in clock units (minutes).
Hours(h) == h * 60

\* The first loop of clear_old_tracking_data: every track's history is
\* filtered, a history left empty is deleted.
PurgedTrackHistory(th, cutoff_time) ==
    LET filtered == [k \in DOMAIN th |-> NewerThan(th[k], cutoff_time)]
    IN  [k \in {k \in DOMAIN th : filtered[k] # << >>} |-> filtered[k]]

\* clear_old_tracking_data without its second loop.
PurgedStatusHistory_Untouched(zsh, cutoff_time) == zsh

\* The second loop of clear_old_tracking_data: every zone's status history
\* is filtered; an empty one stays.
PurgedStatusHistory(zsh, cutoff_time) ==
    [k \in DOMAIN zsh |-> NewerThan(zsh[k], cutoff_time)]

\* ZoneAnalyzer.clear_old_tracking_data(hours_to_keep), one call.  The
\* detection API's endpoints are coroutines that call the analyzer without
\* awaiting inside it, so a purge and a pass run one after the other.
ClearOldTrackingData(hours_to_keep) ==
    /\ purge.n < MaxPurges
    /\ LET cutoff_time == now - Hours(hours_to_keep)
       IN  /\ za_track_history' = PurgedTrackHistory(za_track_history, cutoff_time)
           /\ za_zone_status_history' =
                 PurgedStatusHistory(za_zone_status_history, cutoff_time)
           /\ purge' = [n |-> purge.n + 1, hours_to_keep |-> hours_to_keep,
                         utcnow |-> now,
                         track_history |-> za_track_history,
                         zone_status_history |-> za_zone_status_history,
                         passes |-> za_pass.n]
    /\ UNCHANGED <<za_pass, eff, ticks, now>>
    /\ UNCHANGED <<zone_status_history, track_history, an, passes>>
    /\ UNCHANGED registryVars
    /\ UNCHANGED pipelineVars
    /\ UNCHANGED workerVars
    /\ UNCHANGED <<processorVars, shutdownVars, managerVars>>

\* round(num / den, 0) for den > 0 as Python rounds: to the nearest integer,
\* a tie to the even one.
RoundHalfEven(num, den) ==
    LET q == num \div den
        r == num % den
    IN  IF 2 * r < den THEN q
        ELSE IF 2 * r > den THEN q + 1
        ELSE IF q % 2 = 0 THEN q ELSE q + 1

RECURSIVE StatusTime(_, _, _, _)
\* The loop of get_zone_efficiency from entry i on, for one status: the sum of
\* the durations of the entries with that status, a duration being the time
\* to the next entry of recent_history, or to utcnow for the last one.
StatusTime(recent_history, status, utcnow, i) ==
    IF i > Len(recent_history) THEN 0
    ELSE LET current == recent_history[i]
             duration == IF i < Len(recent_history)
                         THEN recent_history[i + 1].timestamp - current.timestamp
                         ELSE utcnow - current.timestamp
         IN  (IF current.status = status THEN duration ELSE 0)
             + StatusTime(recent_history, status, utcnow, i + 1)

\* The dict get_zone_efficiency returns when there is nothing to sum.
NoEfficiency(stream_id, zone_id) ==
    [zone_id |-> zone_id, stream_id |-> stream_id,
     efficiency_percentage |-> 0,
     work_minutes |-> 0, idle_minutes |-> 0, other_minutes |-> 0]

\* An efficiency mistaking the idle time for the work time.
Efficiency_IdleShare(work_time, idle_time, total_time) ==
    IF total_time > 0 THEN RoundHalfEven(idle_time * 100 * 100, total_time) ELSE 0

\* efficiency = (work_time / total_time * 100) if total_time > 0 else 0.0,
\* then round(efficiency, 2); the model counts it in hundredths of a percent.
Efficiency(work_time, idle_time, total_time) ==
    IF total_time > 0 THEN RoundHalfEven(work_time * 100 * 100, total_time) ELSE 0

\* RectangleZoneAnalyzer.get_zone_efficiency(stream_id, zone_id, minutes) at
\* time utcnow.  The times are whole minutes, which round(_, 2) leaves as
\* they are.
GetZoneEfficiency(zsh, stream_id, zone_id, minutes, utcnow) ==
    IF stream_id \notin DOMAIN zsh THEN NoEfficiency(stream_id, zone_id)
    ELSE IF zone_id \notin DOMAIN zsh[stream_id] THEN NoEfficiency(stream_id, zone_id)
    ELSE LET history == zsh[stream_id][zone_id]
             cutoff_time == utcnow - minutes
             recent_history == NewerThan(history, cutoff_time)
         IN  IF recent_history = << >> THEN NoEfficiency(stream_id, zone_id)
             ELSE LET work_time == StatusTime(recent_history, "work", utcnow, 1)
                      idle_time == StatusTime(recent_history, "idle", utcnow, 1)
                      other_time == StatusTime(recent_history, "other", utcnow, 1)
                      total_time == work_time + idle_time + other_time
                  IN  [zone_id |-> zone_id, stream_id |-> stream_id,
                       efficiency_percentage |->
                           Efficiency(work_time, idle_time, total_time),
                       work_minutes |-> work_time,
                       idle_minutes |-> idle_time,
                       other_minutes |-> other_time,
                       total_minutes |-> total_time]

\* The fields EfficiencyResponse is built from.
EfficiencyFields ==
    {"zone_id", "stream_id", "efficiency_percentage", "work_minutes",
     "idle_minutes", "other_minutes", "total_minutes"}

\* The API's get_zone_efficiency(stream_id, zone_id, minutes): 404 for a
\* stream that is not registered, 400 for minutes outside 1..1440; a field
\* missing from the analyzer's dict raises KeyError inside the try, which
\* the handler turns into a 500.
ApiGetZoneEfficiency(reg, zsh, stream_id, zone_id, minutes, utcnow) ==
    IF stream_id \notin DOMAIN reg THEN [status_code |-> 404]
    ELSE IF minutes < 1 \/ minutes > 1440 THEN [status_code |-> 400]
    ELSE LET efficiency == GetZoneEfficiency(zsh, stream_id, zone_id, minutes, utcnow)
         IN  IF EfficiencyFields \subseteq DOMAIN efficiency
             THEN [status_code |-> 200, body |-> efficiency]
             ELSE [status_code |-> 500]

\* What the callers ask for, as (stream_id, zone_id, minutes): the registered
\* stream's zone over the last minute, the last two and the longest window,
\* a window outside the accepted range, a zone the stream does not have, a
\* stream that is not registered.
QueryInputs ==
    { <<"s2", 1, 1>>, <<"s2", 1, 2>>, <<"s2", 1, 1440>>, <<"s2", 1, 0>>,
      <<"s2", 9, 2>>, <<"s9", 1, 2>> }

Query(stream_id, zone_id, minutes) ==
    /\ eff.n < MaxQueries
    /\ eff' = [op |-> "efficiency", n |-> eff.n + 1,
               stream_id |-> stream_id, zone_id |-> zone_id,
               minutes |-> minutes, utcnow |-> now,
               history |-> IF stream_id \in DOMAIN zone_status_history
                           THEN IF zone_id \in DOMAIN zone_status_history[stream_id]
                                THEN zone_status_history[stream_id][zone_id]
                                ELSE << >>
                           ELSE << >>,
               response |-> ApiGetZoneEfficiency(streams, zone_status_history,
                                                 stream_id, zone_id, minutes, now)]
    /\ UNCHANGED analyzerVars
    /\ UNCHANGED <<za_track_history, za_zone_status_history, za_pass, ticks, purge>>
    /\ UNCHANGED registryVars
    /\ UNCHANGED pipelineVars
    /\ UNCHANGED workerVars
    /\ UNCHANGED <<processorVars, shutdownVars, managerVars>>

\* The frames analysed in this part come from stream s2 (one rectangle,
\* zone 1) and show nobody, one tracked person in the zone, or two.
HistoryStream == "s2"

HistoryInputs ==
    { << >>,
      << Tracking(5, 50, 50, 60, 60) >>,
      << Tracking(5, 50, 50, 60, 60), Tracking(7, 50, 50, 60, 60) >> }

\* The detection API passes the zones of its request: the same rectangle.
ZaZoneInputs ==
    { [k \in DOMAIN ZonesOf(HistoryStream) |-> ZaZone(ZonesOf(HistoryStream)[k])] }

\* Stream s2 is registered with its rectangle and running; the analyzers
\* have not seen a frame yet.
InitHistory ==
    /\ streams = Register(EmptyMap, HistoryStream, NewWorker(ZonesOf(HistoryStream)))
    /\ running = TRUE
    /\ call = [op |-> "add_stream", id |-> HistoryStream,
               nzones |-> Len(ZonesOf(HistoryStream)),
               result |-> TRUE, created |-> TRUE, why |-> "ok",
               stopped |-> {}]
    /\ mgr = NoCallers(<< >>, << >>)
    /\ NewPipeline
    /\ NewAnalyzer
    /\ NewHistory
    /\ NewWorkerThread
    /\ NewProcessor

\* The two processing workers analyse frames of the stream while the
\* efficiency of its zone is queried; the clock advances with every pass.
NextHistory ==
    \/ \E w \in Workers, trackings \in HistoryInputs :
          Begin(w, HistoryStream, trackings)
    \/ \E w \in Workers : TrackStep(w)
    \/ \E w \in Workers : StatusCheck(w)
    \/ \E w \in Workers : StatusAppend(w)
    \/ \E q \in QueryInputs : Query(q[1], q[2], q[3])

SpecHistory == InitHistory /\ [][NextHistory]_vars

\* Both analyzers over a long time: frames are analysed one after the other
\* (by processing worker 1 and by the detection API), and hours pass in
\* between.
InitRetention == InitHistory

NextRetention ==
    \/ \E dt \in ClockSteps : Tick(dt)
    \/ \E trackings \in HistoryInputs : Begin(1, HistoryStream, trackings)
    \/ TrackStep(1)
    \/ StatusCheck(1)
    \/ StatusAppend(1)
    \/ \E trackings \in HistoryInputs, zones \in ZaZoneInputs :
          ZaAnalyze(trackings, zones)
    \/ \E hours_to_keep \in HoursToKeepInputs : ClearOldTrackingData(hours_to_keep)

SpecRetention == InitRetention /\ [][NextRetention]_vars

(***************************************************************************)
(* Claims about retention (checked under SpecRetention)                    *)
(***************************************************************************)

\* No entry of the list is older than the window, measured from timestamp.
NoOlderThan(h, timestamp, window) ==
    \A n \in DOMAIN h : h[n].timestamp >= timestamp - window

\* The status lists of the zones a returned pipeline pass went through.
PipelineStatusPruned ==
    \A w \in Returned : \A k \in DOMAIN an[w].rectangles :
        NoOlderThan(zone_status_history[an[w].stream_id][an[w].rectangles[k].zone_id],
                    an[w].timestamp, STATUS_RETENTION)

\* The movement lists a returned pipeline pass appended to.
PipelineTracksPruned ==
    \A w \in Returned : \A k \in DOMAIN an[w].rectangles :
        \A i \in TrackedInside(an[w], k) :
            NoOlderThan(track_history[an[w].stream_id][an[w].trackings[i].track_id],
                        an[w].timestamp, TRACK_RETENTION)

\* The movement lists the last ZoneAnalyzer pass appended to.
ZoneAnalyzerTracksPruned ==
    za_pass.pc = "done" =>
        \A z \in DOMAIN za_pass.occupancy : \A t \in za_pass.occupancy[z] :
            t \in DOMAIN za_track_history =>
                NoOlderThan(za_track_history[t], za_pass.timestamp,
                            TRACK_RETENTION)

\* The status lists of the zones the last ZoneAnalyzer pass went through.
ZoneAnalyzerStatusPruned ==
    za_pass.pc = "done" =>
        \A z \in DOMAIN za_pass.occupancy :
            NoOlderThan(za_zone_status_history[z], za_pass.timestamp,
                        STATUS_RETENTION)

\* The same, for the passes that recorded a status change only.
ZoneAnalyzerStatusPrunedOnChange ==
    za_pass.pc = "done" =>
        \A z \in DOMAIN za_pass.occupancy :
            LET h == za_zone_status_history[z]
            IN  (Len(h) > 0 /\ h[Len(h)].timestamp = za_pass.timestamp) =>
                    NoOlderThan(h, za_pass.timestamp, STATUS_RETENTION)

\* C12: after an analysis pass, no history list the pass wrote to holds an
\* entry older than the retention window (an hour for movement history, a
\* day for status history) counted from the pass's timestamp: in the
\* pipeline analyzer and in ZoneAnalyzer, and for status history also when
\* the pass found the status unchanged.
C12_NoEntryOlderThanRetention ==
    /\ PipelineStatusPruned
    /\ PipelineTracksPruned
    /\ ZoneAnalyzerTracksPruned
    /\ ZoneAnalyzerStatusPruned

\* A ZoneAnalyzer pass cut an old entry off a movement list.
ZoneAnalyzerPrunedATrack ==
    /\ za_pass.pc = "done" /\ za_pass.n = 2
    /\ za_pass.timestamp > TRACK_RETENTION
    /\ 5 \in DOMAIN za_track_history
    /\ Len(za_track_history[5]) = 1
    /\ za_track_history[5][1].timestamp = za_pass.timestamp

(***************************************************************************)
(* Claims about the efficiency query (checked under SpecHistory)           *)
(***************************************************************************)

\* A query was made with a window the API accepts.
Queried == eff.op = "efficiency" /\ eff.minutes >= 1 /\ eff.minutes <= 1440

\* The entries of the queried history that lie inside the queried window.
InWindow ==
    SelectSeq(eff.history,
              LAMBDA entry : entry.timestamp > eff.utcnow - eff.minutes)

\* The response carries all five figures and all of them are 0.
AllZeroResponse(response) ==
    /\ response.status_code = 200
    /\ {"efficiency_percentage", "work_minutes", "idle_minutes",
        "other_minutes", "total_minutes"} \subseteq DOMAIN response.body
    /\ response.body.efficiency_percentage = 0
    /\ response.body.work_minutes = 0
    /\ response.body.idle_minutes = 0
    /\ response.body.other_minutes = 0
    /\ response.body.total_minutes = 0

\* C13: a query for a (stream, zone) with no status entry inside the window
\* (unknown stream, unknown zone, or only older entries) is answered, without
\* an error, by a result whose efficiency, work, idle, other and total are
\* all present and 0.
C13_EmptyWindowAllZero ==
    (Queried /\ InWindow = << >>) => AllZeroResponse(eff.response)

\* The three cases of C13 for a registered stream, each answered by a 500.
C13_ReachedNoHistory ==
    /\ Queried /\ eff.stream_id = "s2" /\ eff.zone_id = 1
    /\ "s2" \notin DOMAIN zone_status_history
    /\ eff.response.status_code = 500

C13_ReachedUnknownZone ==
    /\ Queried /\ eff.stream_id = "s2" /\ eff.zone_id = 9
    /\ "s2" \in DOMAIN zone_status_history
    /\ eff.response.status_code = 500

C13_ReachedAllOlder ==
    /\ Queried /\ eff.history # << >> /\ InWindow = << >>
    /\ eff.response.status_code = 500

\* An empty window is never answered by a 200.
C13_EmptyWindowNeverAnswered ==
    (Queried /\ InWindow = << >>) => eff.response.status_code \in {404, 500}

\* The query was answered with the figures.
Answered == Queried /\ eff.response.status_code = 200

\* C14: in every efficiency result work + idle + other = total, the
\* efficiency is 0 when the total is 0 and lies between 0 and 100 (percent,
\* here in hundredths) otherwise.
C14_EfficiencyConsistent ==
    Answered =>
        LET r == eff.response.body
        IN  /\ r.work_minutes + r.idle_minutes + r.other_minutes = r.total_minutes
            /\ r.total_minutes = 0 => r.efficiency_percentage = 0
            /\ r.total_minutes # 0 =>
                  (0 <= r.efficiency_percentage /\ r.efficiency_percentage <= 100 * 100)

\* C14 for the histories that are in timestamp order.
C14_ConsistentWhenOrdered ==
    (Answered /\ TimeOrdered(eff.history)) =>
        LET r == eff.response.body
        IN  /\ r.work_minutes + r.idle_minutes + r.other_minutes = r.total_minutes
            /\ r.total_minutes = 0 => r.efficiency_percentage = 0
            /\ r.total_minutes # 0 =>
                  (0 <= r.efficiency_percentage /\ r.efficiency_percentage <= 100 * 100)

\* The time attributed to the i-th in-window entry: up to the next in-window
\* entry, or up to the time of the query for the last one.
Attributed(i) ==
    IF i < Len(InWindow)
    THEN InWindow[i + 1].timestamp - InWindow[i].timestamp
    ELSE eff.utcnow - InWindow[i].timestamp

RECURSIVE SumAttributed(_)
SumAttributed(indices) ==
    IF indices = {} THEN 0
    ELSE LET i == CHOOSE x \in indices : TRUE
         IN  Attributed(i) + SumAttributed(indices \ {i})

\* The minutes attributed to the in-window entries of one status.
MinutesOf(status) ==
    SumAttributed({i \in DOMAIN InWindow : InWindow[i].status = status})

\* C15: an answered efficiency query reports, per status, the sum of the
\* times attributed to the in-window entries of that status (each entry up
\* to the next one, the last one up to the time of the query), and the
\* efficiency work / (work + idle + other) * 100, rounded to two decimals.
C15_EfficiencyFromDurations ==
    Answered =>
        LET r == eff.response.body
            work == MinutesOf("work")
            idle == MinutesOf("idle")
            other == MinutesOf("other")
            total == work + idle + other
            off == r.efficiency_percentage * total - work * 100 * 100
        IN  /\ r.work_minutes = work
            /\ r.idle_minutes = idle
            /\ r.other_minutes = other
            /\ total > 0 => (2 * off <= total /\ -2 * off <= total)

\* C15 witness: the history [(idle, t0), (work, t0 + 1 min)] queried at
\* t0 + 2 min over a window that covers it: idle 1 minute, work 1 minute,
\* efficiency 50.00.
C15_Witness ==
    /\ Answered
    /\ eff.history = << [status |-> "idle", timestamp |-> 0],
                        [status |-> "work", timestamp |-> 1] >>
    /\ eff.utcnow = 2
    /\ InWindow = eff.history
    /\ eff.response.body.idle_minutes = 1
    /\ eff.response.body.work_minutes = 1
    /\ eff.response.body.other_minutes = 0
    /\ eff.response.body.efficiency_percentage = 50 * 100

\* An answered query whose window cut the older entries off, and one that
\* summed time in status other.
C15_ReachedPartWindow ==
    Answered /\ Len(InWindow) < Len(eff.history)

C15_ReachedOther ==
    Answered /\ eff.response.body.other_minutes > 0

(***************************************************************************)
(*  One VideoStreamWorker over its life: run, _connect, _process_frames,   *)
(*  _reconnect_with_backoff, _cleanup; stop and zone updates from outside  *)
(***************************************************************************)

\* Frames accepted, reconnection schedules started and zone updates made in
\* one run.
MaxFrames == 2
MaxSchedules == 1
MaxUpdates == 1

\* Frames read, accepted or not, in one run.
MaxReads == 3

\* What opening the source can do: the capture opens; it does not open
\* (isOpened() is false); constructing it raises.
ConnectOutcomes == {"ok", "not_opened", "raised"}

\* The rectangle lists update_stream builds from its request.
ZoneUpdateInputs == {MakeZones(1), MakeZones(3)}

\* One more event in the log of the current schedule.
ScheduleLogged(event) == [sched EXCEPT !.log = Append(@, event)]

\* _connect(): the fields it leaves behind, by outcome.
Connected(w, outcome) ==
    IF outcome = "ok"
    THEN [w EXCEPT !.status = "connected", !.error_count = 0, !.cap = "open",
                   !.last_connect = outcome, !.read_failed = FALSE]
    ELSE IF outcome = "not_opened"
    THEN [w EXCEPT !.cap = "closed", !.last_connect = outcome]
    ELSE [w EXCEPT !.status = "error", !.last_connect = outcome]

\* A backoff loop that goes on to the next delay after a successful connect.
BackoffReturns_Never(connected) == FALSE

\* if self._connect(): return
BackoffReturns(connected) == connected

\* while not self.stop_event.is_set(): the top of run's loop.
WkLoop ==
    /\ wk.pc = "loop"
    /\ wk' = IF wk.stop_event
             THEN [wk EXCEPT !.pc = "cleanup"]
             ELSE [wk EXCEPT !.pc = "connect", !.ctx = "run"]
    /\ UNCHANGED <<zone_lists, sched, frame_queue>>
    /\ UNCHANGED <<outsideWorker, status_query>>

\* _connect, its first statement: self.status = StreamStatus.CONNECTING
WkConnecting ==
    /\ wk.pc = "connect"
    /\ wk' = [wk EXCEPT !.pc = "open", !.status = "connecting"]
    /\ UNCHANGED <<zone_lists, sched, frame_queue>>
    /\ UNCHANGED <<outsideWorker, status_query>>

\* _process_frames, its first statement:
\* frame_interval = 1.0 / target_fps if target_fps > 0 else 0
FrameIntervalOf(target_fps) == IF target_fps > 0 THEN target_fps ELSE 0

\* run: if self._connect(): self._process_frames()
\*      else: self._reconnect_with_backoff() if auto_reconnect else break
WkConnectRun(outcome) ==
    /\ wk.pc = "open" /\ wk.ctx = "run"
    /\ LET w1 == Connected(wk, outcome)
       IN  IF outcome = "ok"
           THEN /\ wk' = [w1 EXCEPT !.pc = "frames",
                                     !.interval_fps = FrameIntervalOf(wk.target_fps)]
                /\ sched' = sched
           ELSE IF wk.auto_reconnect
           THEN /\ sched.n < MaxSchedules
                /\ wk' = [w1 EXCEPT !.pc = "backoff", !.attempt = 0]
                /\ sched' = [sched EXCEPT !.n = @ + 1, !.log = << >>]
           ELSE /\ wk' = [w1 EXCEPT !.pc = "cleanup"]
                /\ sched' = sched
    /\ UNCHANGED <<zone_lists, frame_queue>>
    /\ UNCHANGED <<outsideWorker, status_query>>

\* _reconnect_with_backoff: the head of one round of `for attempt, delay in
\* enumerate(delays)`; after the last round the status becomes ERROR and the
\* function returns to run's loop.
WkBackoff ==
    /\ wk.pc = "backoff"
    /\ IF wk.attempt >= Len(Delays)
       THEN /\ wk' = [wk EXCEPT !.pc = "loop", !.status = "error"]
            /\ sched' = [sched EXCEPT !.exhausted = TRUE]
       ELSE IF wk.stop_event
       THEN /\ wk' = [wk EXCEPT !.pc = "loop"]
            /\ sched' = sched
       ELSE /\ wk' = [wk EXCEPT !.pc = "sleep"]
            /\ sched' = sched
    /\ UNCHANGED <<zone_lists, frame_queue>>
    /\ UNCHANGED <<outsideWorker, status_query>>

\* time.sleep(delay)
WkSleep ==
    /\ wk.pc = "sleep"
    /\ wk' = [wk EXCEPT !.pc = "connect", !.ctx = "backoff"]
    /\ sched' = ScheduleLogged([kind |-> "wait", delay |-> Delays[wk.attempt + 1]])
    /\ UNCHANGED <<zone_lists, frame_queue>>
    /\ UNCHANGED <<outsideWorker, status_query>>

\* if self._connect(): return      (inside the backoff loop)
WkConnectBackoff(outcome) ==
    /\ wk.pc = "open" /\ wk.ctx = "backoff"
    /\ LET w1 == Connected(wk, outcome)
       IN  wk' = IF BackoffReturns(outcome = "ok")
                 THEN [w1 EXCEPT !.pc = "loop"]
                 ELSE [w1 EXCEPT !.pc = "backoff", !.attempt = @ + 1]
    /\ sched' = ScheduleLogged([kind |-> "attempt", ok |-> (outcome = "ok")])
    /\ UNCHANGED <<zone_lists, frame_queue>>
    /\ UNCHANGED <<outsideWorker, status_query>>

\* _process_frames: the loop test, and its end when the read fails.
WkFramesEnd ==
    /\ wk.pc = "frames"
    /\ wk' = [wk EXCEPT !.pc = "loop", !.read_failed = ~wk.stop_event]
    /\ UNCHANGED <<zone_lists, sched, frame_queue>>
    /\ UNCHANGED <<outsideWorker, status_query>>

\* _process_frames raised (the capture failed in cap.read()): run's handler
\* sets ERROR, counts the error, and goes on after 2 s or leaves the loop.
WkFramesRaise ==
    /\ wk.pc = "frames"
    /\ ~wk.stop_event /\ wk.cap = "open"
    /\ LET n == wk.error_count + 1
       IN  wk' = [wk EXCEPT !.status = "error", !.error_count = n,
                            !.pc = IF wk.auto_reconnect /\ n < 10
                                   THEN "loop" ELSE "cleanup"]
    /\ UNCHANGED <<zone_lists, sched, frame_queue>>
    /\ UNCHANGED <<outsideWorker, status_query>>

\* _update_fps_tracking: a second after the last update the count restarts.
FpsTracked(frame_count, second_passed) ==
    IF second_passed THEN 0 ELSE frame_count

\* if frame_interval > 0: if current_time - self.last_frame_time <
\* frame_interval: continue
FpsSkips(w, current_time) ==
    /\ w.interval_fps > 0
    /\ (current_time - w.last_frame_time) * w.interval_fps < TicksPerSecond

\* One pass of _process_frames' loop with a frame read at current_time: the
\* fps control skips it, or it is accepted: last_frame_time, frame_count += 1,
\* _update_fps_tracking.
WkRead(current_time, second_passed) ==
    /\ wk.pc = "frames"
    /\ ~wk.stop_event /\ wk.cap = "open"
    /\ wk.captured < MaxFrames /\ wk.reads < MaxReads
    /\ wk' = IF FpsSkips(wk, current_time)
             THEN [wk EXCEPT !.reads = @ + 1, !.read_time = current_time]
             ELSE [wk EXCEPT !.pc = "put",
                             !.reads = @ + 1, !.read_time = current_time,
                             !.captured = @ + 1,
                             !.last_frame_time = current_time,
                             !.accepted = Append(@,
                                 [timestamp |-> current_time,
                                  target_fps |-> wk.target_fps,
                                  interval_fps |-> wk.interval_fps]),
                             !.frame = [id |-> wk.captured + 1,
                                        captured_under |-> zone_lists[wk.zones],
                                        timestamp |-> current_time],
                             !.frame_count = FpsTracked(@ + 1, second_passed)]
    /\ UNCHANGED <<zone_lists, sched, frame_queue>>
    /\ UNCHANGED <<outsideWorker, status_query>>

\* The envelope of the frame in hand: frame_number and zones are read from
\* the worker when the envelope is built.
Envelope(w) ==
    [id |-> w.frame.id,
     timestamp |-> w.frame.timestamp,
     frame_number |-> w.frame_count,
     zones |-> w.zones,
     captured_under |-> w.frame.captured_under,
     queued_with |-> zone_lists[w.zones]]

\* if self.frame_queue.full(): get_nowait();  self.frame_queue.put({...})
WkPut ==
    /\ wk.pc = "put"
    /\ frame_queue' = Put(IF Full(frame_queue, FRAME_QUEUE_MAXSIZE)
                          THEN GetNowait(frame_queue) ELSE frame_queue,
                          Envelope(wk))
    /\ wk' = [wk EXCEPT !.pc = "frames",
                        !.pushed = Append(@, wk.frame_count)]
    /\ UNCHANGED <<zone_lists, sched>>
    /\ UNCHANGED <<outsideWorker, status_query>>

\* A cleanup that leaves the frames in the queue.
WkCleanup_KeepsFrames ==
    /\ wk.pc = "cleanup"
    /\ wk' = [wk EXCEPT !.pc = "exit", !.cap = "none", !.status = "stopped"]
    /\ UNCHANGED <<zone_lists, sched, frame_queue>>
    /\ UNCHANGED <<outsideWorker, status_query>>

\* _cleanup(): release the capture, empty the queue, STOPPED.
WkCleanup ==
    /\ wk.pc = "cleanup"
    /\ wk' = [wk EXCEPT !.pc = "exit", !.cap = "none", !.status = "stopped"]
    /\ frame_queue' = << >>
    /\ UNCHANGED <<zone_lists, sched>>
    /\ UNCHANGED <<outsideWorker, status_query>>

\* worker.stop(), called by remove_stream and shutdown.
WkStop ==
    /\ ~wk.stop_event
    /\ wk' = [wk EXCEPT !.stop_event = TRUE]
    /\ UNCHANGED <<zone_lists, sched, frame_queue>>
    /\ UNCHANGED <<outsideWorker, status_query>>

\* A zone update that overwrites the worker's list in place.
SetZones_InPlace(lists, ref, new_zones) ==
    [lists |-> [lists EXCEPT ![ref] = new_zones], ref |-> ref]

\* update_stream: new_zones is a new list and worker.zones = new_zones binds
\* the worker to it.
SetZones(lists, ref, new_zones) ==
    [lists |-> Append(lists, new_zones), ref |-> Len(lists) + 1]

WkSetZones(new_zones) ==
    /\ Len(zone_lists) <= MaxUpdates
    /\ LET r == SetZones(zone_lists, wk.zones, new_zones)
       IN  /\ zone_lists' = r.lists
           /\ wk' = [wk EXCEPT !.zones = r.ref]
    /\ UNCHANGED <<sched, frame_queue>>
    /\ UNCHANGED <<outsideWorker, status_query>>

\* The update endpoint: worker.config.target_fps = update_data.target_fps,
\* while the worker runs.
WkSetFps(target_fps) ==
    /\ wk.target_fps # target_fps
    /\ wk' = [wk EXCEPT !.target_fps = target_fps]
    /\ UNCHANGED <<zone_lists, sched, frame_queue>>
    /\ UNCHANGED <<outsideWorker, status_query>>

\* worker.get_frame(), called by the collector through get_all_frames.
WkGetFrame ==
    /\ frame_queue # << >>
    /\ frame_queue' = Tail(frame_queue)
    /\ UNCHANGED <<wk, zone_lists, sched>>
    /\ UNCHANGED <<outsideWorker, status_query>>

\* Status queries made in one run.
MaxStatusQueries == 1

\* VideoStreamWorker.get_status(): the state and the number of rectangles
\* as they are when the query is made.
get_status(w) ==
    [status |-> w.status, zones_count |-> Len(zone_lists[w.zones])]

\* A status query from the API thread.  updates is the number of zone
\* updates made before it.
WkGetStatus ==
    /\ status_query.n < MaxStatusQueries
    /\ status_query' = [n |-> status_query.n + 1, report |-> get_status(wk),
                        updates |-> Len(zone_lists) - 1]
    /\ UNCHANGED <<wk, zone_lists, sched, frame_queue>>
    /\ UNCHANGED outsideWorker

\* The capture time of the next frame of a source that delivers one frame
\* a tick.
SourceTime(w) ==
    IF w.last_frame_time = 0 THEN StartTime ELSE w.last_frame_time + 1

\* A worker just constructed with two rectangles, auto_reconnect on or off,
\* and a target rate of one frame a tick.
InitWorker ==
    /\ NewRegistry
    /\ NewPipeline
    /\ NewAnalyzer
    /\ NewHistory
    /\ NewProcessor
    /\ \E auto_reconnect \in BOOLEAN :
           WorkerAt(MakeZones(2), auto_reconnect, TicksPerSecond)

NextWorker ==
    \/ WkLoop
    \/ WkConnecting
    \/ \E outcome \in ConnectOutcomes : WkConnectRun(outcome)
    \/ WkBackoff
    \/ WkSleep
    \/ \E outcome \in ConnectOutcomes : WkConnectBackoff(outcome)
    \/ WkFramesEnd
    \/ WkFramesRaise
    \/ \E second_passed \in BOOLEAN : WkRead(SourceTime(wk), second_passed)
    \/ WkPut
    \/ WkCleanup
    \/ WkStop
    \/ \E new_zones \in ZoneUpdateInputs : WkSetZones(new_zones)
    \/ WkGetFrame
    \/ WkGetStatus

SpecWorker == InitWorker /\ [][NextWorker]_vars

\* The steps of the worker thread.  Every capture read, connect call and
\* sleep returns, so the thread takes its next step whenever it has one.
WorkerThread ==
    \/ WkLoop
    \/ WkConnecting
    \/ \E outcome \in ConnectOutcomes : WkConnectRun(outcome)
    \/ WkBackoff
    \/ WkSleep
    \/ \E outcome \in ConnectOutcomes : WkConnectBackoff(outcome)
    \/ WkFramesEnd
    \/ WkFramesRaise
    \/ \E second_passed \in BOOLEAN : WkRead(SourceTime(wk), second_passed)
    \/ WkPut
    \/ WkCleanup

\* The worker thread, stop requests and the collector taking frames; zone
\* updates and status queries play no part in how the thread ends.
NextWorkerStop ==
    \/ WkLoop
    \/ WkConnecting
    \/ \E outcome \in ConnectOutcomes : WkConnectRun(outcome)
    \/ WkBackoff
    \/ WkSleep
    \/ \E outcome \in ConnectOutcomes : WkConnectBackoff(outcome)
    \/ WkFramesEnd
    \/ WkFramesRaise
    \/ \E second_passed \in BOOLEAN : WkRead(SourceTime(wk), second_passed)
    \/ WkPut
    \/ WkCleanup
    \/ WkStop
    \/ WkGetFrame

SpecWorkerFair ==
    InitWorker /\ [][NextWorkerStop]_vars /\ WF_vars(WorkerThread)

\* The readings of the clock in one run, and the target rates of a request.
MaxTime == 3
ClockInputs == StartTime .. (StartTime + MaxTime)
TargetFpsInputs == {1, TicksPerSecond}

\* A worker with auto_reconnect off and any of the target rates.
InitFps ==
    /\ NewRegistry
    /\ NewPipeline
    /\ NewAnalyzer
    /\ NewHistory
    /\ NewProcessor
    /\ \E target_fps \in TargetFpsInputs :
           WorkerAt(MakeZones(2), FALSE, target_fps)

\* The worker thread reading frames at any time of the clock, a stop, the
\* collector, and updates of the target rate.
NextFps ==
    \/ WkLoop
    \/ WkConnecting
    \/ \E outcome \in ConnectOutcomes : WkConnectRun(outcome)
    \/ WkFramesEnd
    \/ \E current_time \in ClockInputs, second_passed \in BOOLEAN :
           WkRead(current_time, second_passed)
    \/ WkPut
    \/ WkCleanup
    \/ WkStop
    \/ WkGetFrame
    \/ \E target_fps \in TargetFpsInputs : WkSetFps(target_fps)

SpecFps == InitFps /\ [][NextFps]_vars

(***************************************************************************)
(* Claims about the stream worker (checked under SpecWorker)               *)
(***************************************************************************)

\* C16: in a reconnection schedule the waits are 1, 2, 4, 8, 16, 32, 60
\* seconds in that order, every wait is followed by one connect attempt, and
\* a successful attempt is the last event of the schedule.
C16_BackoffSchedule ==
    LET log == sched.log
    IN  /\ Len(log) <= 14
        /\ \A i \in DOMAIN log :
              IF i % 2 = 1
              THEN /\ log[i].kind = "wait"
                   /\ log[i].delay = <<1, 2, 4, 8, 16, 32, 60>>[(i + 1) \div 2]
              ELSE log[i].kind = "attempt"
        /\ \A i \in DOMAIN log :
              (log[i].kind = "attempt" /\ log[i].ok) => i = Len(log)

\* C16 witness: the third attempt of a schedule succeeded, after waits of 1,
\* 2 and 4 seconds, and the worker has gone on to capture a frame.
C16_Witness ==
    /\ Len(sched.log) = 6
    /\ sched.log[5].delay = 4
    /\ ~sched.log[2].ok /\ ~sched.log[4].ok /\ sched.log[6].ok
    /\ wk.pc = "put"

\* A schedule ran through all seven waits.
C16_ReachedAllWaits ==
    /\ Len(sched.log) = 14
    /\ sched.log[13].delay = 60

\* C17: once a schedule is exhausted the worker is in state Error (Stopped
\* after its cleanup) and on its way out: it is not connecting, waiting or
\* capturing again.
C17_ExhaustionEndsWorker ==
    sched.exhausted =>
        /\ wk.pc \in {"loop", "cleanup", "exit"}
        /\ wk.status \in {"error", "stopped"}

\* After an exhausted schedule, with no stop requested, the worker connected
\* again and captures.
C17_ReachedCaptureAfterExhaustion ==
    /\ sched.exhausted /\ ~wk.stop_event
    /\ wk.status = "connected" /\ wk.pc = "put"

\* C18: the frame numbers of the envelopes a worker pushed are strictly
\* increasing.
C18_FrameNumbersIncrease ==
    \A i \in 1..(Len(wk.pushed) - 1) : wk.pushed[i] < wk.pushed[i + 1]

\* C19: every queued envelope carries the rectangle list that was active
\* when its frame was captured, whatever zone updates were made since.
C19_EnvelopeCarriesZonesAtCapture ==
    \A i \in DOMAIN frame_queue :
        zone_lists[frame_queue[i].zones] = frame_queue[i].captured_under

\* The list an envelope was queued with is never altered afterwards.
QueuedZonesNeverAltered ==
    \A i \in DOMAIN frame_queue :
        zone_lists[frame_queue[i].zones] = frame_queue[i].queued_with

\* A zone update was made while an envelope was queued.
ReachedUpdateAfterQueued ==
    /\ frame_queue # << >>
    /\ frame_queue[1].zones # wk.zones
    /\ frame_queue[1].captured_under = frame_queue[1].queued_with

\* After a successful add with two rectangles and no zone update, a status
\* query reports two zones.
StatusReportsZonesAtAdd ==
    (status_query.n > 0 /\ status_query.updates = 0) =>
        status_query.report.zones_count = 2

\* C24: a status query that follows the add of a stream with two
\* rectangles, no update in between, reports zones_count = 2, and the first
\* query after the add reports the state Connecting or Connected.
C24_StatusAfterAdd ==
    /\ StatusReportsZonesAtAdd
    /\ status_query.n = 1 =>
          status_query.report.status \in {"connecting", "connected"}

\* The first status query was made before the worker thread reached its
\* connect call.
C24_ReachedDisconnected ==
    status_query.n = 1 /\ status_query.report.status = "disconnected"

\* The first status query was made after a connect attempt had raised.
C24_ReachedError ==
    status_query.n = 1 /\ status_query.report.status = "error"

\* The first status query was made after the worker had ended.
C24_ReachedStopped ==
    status_query.n = 1 /\ status_query.report.status = "stopped"

\* The changes of state the specification's state machine allows.
StateMachine ==
    { <<"disconnected", "connecting">>, <<"connecting", "connected">>,
      <<"connected", "error">>, <<"connected", "stopped">>,
      <<"error", "connecting">>, <<"error", "stopped">> }

\* C26: the worker starts Disconnected, every change of its state is one of
\* Disconnected->Connecting, Connecting->Connected, Connected->Error,
\* Connected->Stopped, Error->Connecting, Error->Stopped, and Stopped is
\* never left.
C26_StateMachine ==
    /\ wk.status = "disconnected"
    /\ [][ wk'.status # wk.status =>
             <<wk.status, wk'.status>> \in StateMachine ]_vars

\* The changes of state the worker makes besides those of the state machine.
OtherChanges ==
    { <<"disconnected", "stopped">>, <<"connecting", "error">>,
      <<"connecting", "stopped">>, <<"connected", "connecting">> }

\* The worker starts Disconnected, changes state only along the state
\* machine or by one of the four other changes, and never leaves Stopped.
StateChangesOfTheWorker ==
    /\ wk.status = "disconnected"
    /\ [][ wk'.status # wk.status =>
             <<wk.status, wk'.status>> \in StateMachine \cup OtherChanges ]_vars

\* After a failed read the worker is connecting again, coming from Connected.
C26_ReachedConnectedToConnecting ==
    wk.read_failed /\ wk.status = "connecting" /\ wk.last_connect = "ok"

\* A connect attempt raised: the state went from Connecting to Error.
C26_ReachedConnectingToError ==
    wk.last_connect = "raised" /\ wk.status = "error" /\ wk.pc = "backoff"

\* The worker ended after a connect attempt whose source did not open.
C26_ReachedStoppedFromConnecting ==
    wk.status = "stopped" /\ wk.last_connect = "not_opened"

\* This step is the end of a connect attempt.
ConnectReturns == wk.pc = "open" /\ wk'.pc # "open"

\* C27: when a connect attempt ends, either it succeeded and the state is
\* Connected with the error counter at 0, or it failed and the state is
\* Error.
C27_ConnectOutcomes ==
    [][ ConnectReturns =>
          IF wk'.last_connect = "ok"
          THEN wk'.status = "connected" /\ wk'.error_count = 0
          ELSE wk'.status = "error" ]_vars

\* A connect attempt that succeeds leaves Connected and a counter of 0; one
\* that raises leaves Error; one whose source does not open leaves the state
\* at Connecting.
ConnectOutcomesOfTheWorker ==
    [][ ConnectReturns =>
          /\ wk'.last_connect = "ok" =>
                wk'.status = "connected" /\ wk'.error_count = 0
          /\ wk'.last_connect = "raised" => wk'.status = "error"
          /\ wk'.last_connect = "not_opened" => wk'.status = "connecting" ]_vars

\* A connect attempt whose source did not open has returned.
C27_ReachedNotOpened ==
    wk.last_connect = "not_opened" /\ wk.status = "connecting" /\ wk.pc = "backoff"

\* C28: after a frame read failed with auto-reconnect disabled the worker
\* makes no connect attempt: it is on its way to Stopped.  (With
\* auto-reconnect enabled it connects again; see ReadFailureReconnects.)
C28_ReadFailureEndsWorker ==
    (wk.read_failed /\ ~wk.auto_reconnect) =>
        wk.pc \in {"loop", "cleanup", "exit"}

\* After a failed read the run loop calls _connect() again, whatever
\* auto_reconnect is, unless a stop was requested.
ReadFailureReconnects ==
    [][ (wk.read_failed /\ wk.pc = "loop" /\ wk'.pc # "loop") =>
           wk'.pc = IF wk.stop_event THEN "cleanup" ELSE "connect" ]_vars

\* With auto-reconnect disabled and no stop requested, a worker whose read
\* failed is in a new connect attempt.
C28_ReachedConnectAfterFailedRead ==
    /\ ~wk.auto_reconnect /\ ~wk.stop_event
    /\ wk.read_failed
    /\ wk.pc = "open" /\ wk.status = "connecting"

\* The error counter never exceeds 1: every run-time error follows a
\* successful connect, which resets the counter.
ErrorCountAtMostOne == wk.error_count <= 1

\* With auto-reconnect enabled the worker does not end unless a stop was
\* requested.
AutoReconnectEndsOnlyOnStop ==
    (wk.auto_reconnect /\ wk.pc \in {"cleanup", "exit"}) => wk.stop_event

\* With auto-reconnect enabled the worker retries after a run-time error.
ReachedRetryAfterError ==
    /\ wk.auto_reconnect /\ wk.error_count = 1
    /\ wk.status = "connecting" /\ wk.pc = "open"

\* C30: once the stop signal is set the worker reaches Stopped, and in
\* Stopped its capture handle is released and its frame queue is empty.
C30_StopReachesStopped ==
    /\ wk.stop_event ~> wk.status = "stopped"
    /\ [](wk.status = "stopped" =>
            /\ wk.cap = "none"
            /\ frame_queue = << >>
            /\ wk.pc = "exit")

\* C30 witness: a worker stopped while it held an open capture and had
\* pushed a frame has reached Stopped.
C30_Witness ==
    /\ wk.stop_event
    /\ wk.status = "stopped"
    /\ wk.last_connect = "ok"
    /\ wk.pushed # << >>
    /\ wk.cap = "none"
    /\ frame_queue = << >>

\* A stop was requested while the worker was waiting in its backoff schedule.
C30_ReachedStopInBackoff ==
    wk.stop_event /\ wk.pc = "sleep"

\* A connect attempt of the backoff schedule begins: _connect() is entered
\* after the wait.
BackoffAttemptBegins ==
    wk.pc = "connect" /\ wk.ctx = "backoff" /\ wk'.pc = "open"

\* C31: once a stop has been requested while the worker is in its backoff
\* schedule, no connect attempt of the schedule begins any more; a stop set
\* during a wait ends the schedule before the attempt that follows the wait.
C31_StopEndsBackoffBeforeAttempt ==
    [][BackoffAttemptBegins => ~wk.stop_event]_vars

\* The stop is seen at the head of a round only: a round that begins with
\* the stop set makes neither its wait nor its attempt.
StopEndsScheduleAtRoundHead ==
    [][(wk.pc = "backoff" /\ wk.stop_event /\ wk.attempt < Len(Delays))
          => wk'.pc \in {"backoff", "loop"}]_vars

\* After a stop set during a wait, the attempt that follows the wait was
\* made and opened the source.
C31_ReachedAttemptAfterStop ==
    /\ wk.stop_event /\ wk.pc = "loop" /\ wk.ctx = "backoff"
    /\ wk.last_connect = "ok" /\ wk.cap = "open"
    /\ sched.log # << >>
    /\ sched.log[Len(sched.log)] = [kind |-> "attempt", ok |-> TRUE]

\* A connect attempt opens the source: cv2.VideoCapture(...) returns an
\* opened capture.
ConnectOpens ==
    wk.pc = "open" /\ wk'.pc # "open" /\ wk'.last_connect = "ok"

\* C37: the worker holds at most one open capture handle: when a connect
\* attempt opens one, the handle of the attempt before has been released,
\* and in Stopped none is open.
C37_OneCaptureHandle ==
    /\ [](wk.status = "stopped" => wk.cap = "none")
    /\ [][ConnectOpens => wk.cap # "open"]_vars

\* The handle the worker holds when it ends is released.
HandleReleasedAtStop == wk.status = "stopped" => wk.cap = "none"

\* Only _cleanup releases a handle: every other step leaves an open handle
\* open.
OnlyCleanupReleases ==
    [][(wk.cap = "open" /\ wk'.cap # "open") =>
          \/ wk.pc = "cleanup"
          \/ wk.pc = "open" /\ wk'.last_connect = "not_opened"]_vars

\* After a failed read the run loop is in a new connect attempt while the
\* capture of the attempt before is still open.
C37_ReachedConnectAfterFailedRead ==
    /\ wk.pc = "open" /\ wk.ctx = "run"
    /\ wk.read_failed /\ wk.cap = "open"

\* After a successful reconnect in the backoff schedule the run loop is in
\* its own connect attempt while the reconnect's capture is still open.
C37_ReachedConnectAfterReconnect ==
    /\ wk.pc = "open" /\ wk.ctx = "run"
    /\ ~wk.read_failed /\ wk.cap = "open"
    /\ sched.log # << >>
    /\ sched.log[Len(sched.log)] = [kind |-> "attempt", ok |-> TRUE]

(***************************************************************************)
(*  Claims about the fps control (checked under SpecFps)                   *)
(***************************************************************************)

\* Consecutive accepted frames are at least 1/fps apart, fps being the rate
\* the given operator reads from the record of the later frame.
SpacedBy(Fps(_)) ==
    \A i \in 1 .. (Len(wk.accepted) - 1) :
        LET later == wk.accepted[i + 1]
        IN  Fps(later) > 0 =>
                (later.timestamp - wk.accepted[i].timestamp) * Fps(later)
                    >= TicksPerSecond

\* The stream's target_fps when the frame was accepted.
TargetFpsAtCapture(entry) == entry.target_fps

\* The rate the capture loop took its frame_interval from.
IntervalFpsAtCapture(entry) == entry.interval_fps

\* A frame was read less than 1/target_fps after the last accepted frame.
ReadTooSoon ==
    /\ wk'.reads = wk.reads + 1
    /\ wk.accepted # << >>
    /\ (wk'.read_time - wk.accepted[Len(wk.accepted)].timestamp) * wk.target_fps
           < TicksPerSecond

\* The read queued nothing, displaced nothing and left the counters alone.
ReadDiscarded ==
    /\ wk'.pc = "frames"
    /\ frame_queue' = frame_queue
    /\ wk'.frame_count = wk.frame_count
    /\ wk'.captured = wk.captured
    /\ wk'.accepted = wk.accepted
    /\ wk'.pushed = wk.pushed

\* C32: any two consecutively accepted frames of the stream are at least
\* 1/target_fps apart in capture time, and a frame read sooner than that
\* after the last accepted frame is not queued, does not advance the frame
\* counter and does not displace a queued frame.
C32_FramesSpacedByTargetFps ==
    /\ []SpacedBy(TargetFpsAtCapture)
    /\ [][ReadTooSoon => ReadDiscarded]_vars

\* The spacing holds for the rate the capture loop read when it was entered.
SpacedByIntervalInForce == SpacedBy(IntervalFpsAtCapture)

\* A frame the fps control skips changes nothing but the record of the read.
SkippedReadDiscarded ==
    [][(wk'.reads = wk.reads + 1 /\ FpsSkips(wk, wk'.read_time))
          => ReadDiscarded]_vars

\* While the target rate is not updated, the claim holds.
SpacedWhileRateUnchanged ==
    (\A i \in 1 .. Len(wk.accepted) :
        wk.accepted[i].target_fps = wk.accepted[i].interval_fps)
        => SpacedBy(TargetFpsAtCapture)

\* Two frames were accepted half a second apart after the target rate had
\* been lowered to one frame a second.
C32_ReachedStaleInterval ==
    /\ Len(wk.accepted) = 2
    /\ wk.accepted[2].target_fps = 1
    /\ wk.accepted[2].interval_fps = TicksPerSecond
    /\ wk.accepted[2].timestamp = wk.accepted[1].timestamp + 1
    /\ Len(frame_queue) = 2

\* A frame read too soon was skipped while a frame was in the queue.
C32_ReachedSkip ==
    /\ wk.reads = 2 /\ wk.captured = 1 /\ wk.pc = "frames"
    /\ Len(frame_queue) = 1
    /\ wk.read_time < wk.last_frame_time + 1

(***************************************************************************)
(*   VideoProcessor: the processing workers step by step, the statistics   *)
(*   and the result queries                                                *)
(***************************************************************************)

\* Frames waiting in the processing queue when a run starts.
MaxProcFrames == 2

\* Result queries made in one run.
MaxResultQueries == 2

\* The streams the frames come from, in turn.
StreamOfFrame(i) == IF i % 2 = 1 THEN "s1" ELSE "s2"

\* A frame envelope and the ProcessingResult made of it are identified by
\* the frame's number in capture order; stream_id is StreamOfFrame of it.
FrameData(i) == i
ResultFor(frame_data) == frame_data

\* What one step of _process_frame can do: return, or raise.
StepOutcomes == {"ok", "raised"}

\* The worker has the frame data in hand and is at the given step.
AtStep(w, pc, item) == [proc EXCEPT ![w] = [pc |-> pc, item |-> item]]

\* _process_frame caught an exception and returned None: `if result:` is
\* false and the loop starts over.
Discarded(w, step) ==
    /\ proc' = [proc EXCEPT ![w] = [pc |-> "get"]]
    /\ handled' = handled \cup {[id |-> proc[w].item, worker |-> w,
                                 outcome |-> step]}

\* frame_data = self.processing_queue.get(timeout=0.1); Empty -> continue
PrGet(w) ==
    /\ proc[w].pc = "get"
    /\ processing_queue # << >>
    /\ proc' = AtStep(w, "encode", Head(processing_queue))
    /\ processing_queue' = Tail(processing_queue)
    /\ UNCHANGED <<results_queue, stats, handled, res>>
    /\ UNCHANGED <<frame_queue, sw, col, pw, budget, pushlog, popped>>
    /\ UNCHANGED outsideProcessing

\* _, buffer = cv2.imencode('.jpg', frame); frame_bytes = buffer.tobytes()
PrEncode(w, outcome) ==
    /\ proc[w].pc = "encode"
    /\ IF outcome = "ok"
       THEN proc' = AtStep(w, "detect", proc[w].item) /\ UNCHANGED handled
       ELSE Discarded(w, "encode")
    /\ UNCHANGED <<processing_queue, results_queue, stats, res>>
    /\ UNCHANGED <<frame_queue, sw, col, pw, budget, pushlog, popped>>
    /\ UNCHANGED outsideProcessing

\* trackings = self.yolo_service.track_persons(frame_bytes, persist=True)
PrDetect(w, outcome) ==
    /\ proc[w].pc = "detect"
    /\ IF outcome = "ok"
       THEN proc' = AtStep(w, "analyze", proc[w].item) /\ UNCHANGED handled
       ELSE Discarded(w, "detect")
    /\ UNCHANGED <<processing_queue, results_queue, stats, res>>
    /\ UNCHANGED <<frame_queue, sw, col, pw, budget, pushlog, popped>>
    /\ UNCHANGED outsideProcessing

\* The result is pushed although _process_frame raised.
Analyzed_PushesAnyway(w, outcome) ==
    /\ proc' = AtStep(w, "full_check", ResultFor(proc[w].item))
    /\ handled' = IF outcome = "ok" THEN handled
                  ELSE handled \cup {[id |-> proc[w].item, worker |-> w,
                                      outcome |-> "analyze"]}

\* zone_analysis = self.zone_analyzer.analyze_trackings_in_rectangles(...);
\* return ResultFor(...)
Analyzed(w, outcome) ==
    IF outcome = "ok"
    THEN proc' = AtStep(w, "full_check", ResultFor(proc[w].item)) /\ UNCHANGED handled
    ELSE Discarded(w, "analyze")

PrAnalyze(w, outcome) ==
    /\ proc[w].pc = "analyze"
    /\ Analyzed(w, outcome)
    /\ UNCHANGED <<processing_queue, results_queue, stats, res>>
    /\ UNCHANGED <<frame_queue, sw, col, pw, budget, pushlog, popped>>
    /\ UNCHANGED outsideProcessing

\* if self.results_queue.full():
PrFullCheck(w) ==
    /\ proc[w].pc = "full_check"
    /\ proc' = [proc EXCEPT ![w].pc = IF Full(results_queue, RESULTS_QUEUE_MAXSIZE)
                                       THEN "drop" ELSE "put"]
    /\ UNCHANGED <<processing_queue, results_queue, stats, handled, res>>
    /\ UNCHANGED <<frame_queue, sw, col, pw, budget, pushlog, popped>>
    /\ UNCHANGED outsideProcessing

\* self.results_queue.get_nowait()  # Drop oldest result
PrDrop(w) ==
    /\ proc[w].pc = "drop"
    /\ results_queue' = GetNowait(results_queue)
    /\ proc' = [proc EXCEPT ![w].pc = "put"]
    /\ UNCHANGED <<processing_queue, stats, handled, res>>
    /\ UNCHANGED <<frame_queue, sw, col, pw, budget, pushlog, popped>>
    /\ UNCHANGED outsideProcessing

\* self.results_queue.put(result); results_pushed counts the puts
PrPut(w) ==
    /\ proc[w].pc = "put"
    /\ CanPut(results_queue, RESULTS_QUEUE_MAXSIZE)
    /\ results_queue' = Put(results_queue, proc[w].item)
    /\ handled' = handled \cup {[id |-> proc[w].item, worker |-> w,
                                 outcome |-> "pushed"]}
    /\ proc' = [proc EXCEPT ![w].pc = "stats_read"]
    /\ stats' = [stats EXCEPT !.results_pushed = @ + 1]
    /\ UNCHANGED <<processing_queue, res>>
    /\ UNCHANGED <<frame_queue, sw, col, pw, budget, pushlog, popped>>
    /\ UNCHANGED outsideProcessing

\* self.stats['frames_processed'] += 1, the read of the old value
PrStatsRead(w) ==
    /\ proc[w].pc = "stats_read"
    /\ proc' = [proc EXCEPT ![w] = [pc |-> "stats_write", item |-> proc[w].item,
                                    read |-> stats.frames_processed]]
    /\ UNCHANGED <<processing_queue, results_queue, stats, handled, res>>
    /\ UNCHANGED <<frame_queue, sw, col, pw, budget, pushlog, popped>>
    /\ UNCHANGED outsideProcessing

\* self.stats['frames_processed'] += 1, the store of the new value
PrStatsWrite(w) ==
    /\ proc[w].pc = "stats_write"
    /\ stats' = [stats EXCEPT !.frames_processed = proc[w].read + 1]
    /\ proc' = [proc EXCEPT ![w] = [pc |-> "stats_average", item |-> proc[w].item]]
    /\ UNCHANGED <<processing_queue, results_queue, handled, res>>
    /\ UNCHANGED <<frame_queue, sw, col, pw, budget, pushlog, popped>>
    /\ UNCHANGED outsideProcessing

\* if self.stats['frames_processed'] % 100 == 0: recompute average_fps
PrStatsAverage(w) ==
    /\ proc[w].pc = "stats_average"
    /\ stats' = IF stats.frames_processed % 100 = 0
                THEN [stats EXCEPT !.recomputed_at = @ \cup {stats.frames_processed}]
                ELSE stats
    /\ proc' = [proc EXCEPT ![w] = [pc |-> "get"]]
    /\ UNCHANGED <<processing_queue, results_queue, handled, res>>
    /\ UNCHANGED <<frame_queue, sw, col, pw, budget, pushlog, popped>>
    /\ UNCHANGED outsideProcessing

RECURSIVE SelectStream(_, _)
\* [r for r in all_results if r.stream_id == stream_id]
SelectStream(results, stream_id) ==
    IF results = << >> THEN << >>
    ELSE IF StreamOfFrame(Head(results)) = stream_id
         THEN <<Head(results)>> \o SelectStream(Tail(results), stream_id)
         ELSE SelectStream(Tail(results), stream_id)

\* The loop of get_latest_results: get_nowait until max_results were taken
\* or the queue is empty.
TakeLatest(q, max_results) ==
    [results |-> Take(q, max_results),
     queue |-> IF Len(q) <= max_results THEN << >>
               ELSE SubSeq(q, max_results + 1, Len(q))]

\* The results pushed so far.
Produced == Cardinality({h \in handled : h.outcome = "pushed"})

\* The record of a result query: what the call took from the queue, what it
\* returned, and how many results had been pushed when it was made.
Answer(op, stream_id, max_results, taken, results) ==
    [op |-> op, n |-> res.n + 1, stream_id |-> stream_id,
     max_results |-> max_results, removed |-> taken,
     returned |-> results, produced |-> Produced]

\* VideoProcessor.get_latest_results(max_results)
get_latest_results(max_results) ==
    LET t == TakeLatest(results_queue, max_results) IN
    /\ results_queue' = t.queue
    /\ res' = Answer("get_latest_results", None, max_results, t.results, t.results)

\* VideoProcessor.get_stream_results(stream_id, max_results)
get_stream_results(stream_id, max_results) ==
    LET t == TakeLatest(results_queue, max_results * 5)
        stream_results == SelectStream(t.results, stream_id)
    IN  /\ results_queue' = t.queue
        /\ res' = Answer("get_stream_results", stream_id, max_results,
                         t.results, Take(stream_results, max_results))

\* The arguments of the result queries.
MaxResultsInputs == {1, 2}
ResultStreams == {"s1", "s2"}

GetLatestResults ==
    /\ res.n < MaxResultQueries
    /\ \E max_results \in MaxResultsInputs : get_latest_results(max_results)
    /\ UNCHANGED <<processing_queue, proc, stats, handled>>
    /\ UNCHANGED <<frame_queue, sw, col, pw, budget, pushlog, popped>>
    /\ UNCHANGED outsideProcessing

GetStreamResults ==
    /\ res.n < MaxResultQueries
    /\ \E stream_id \in ResultStreams, max_results \in MaxResultsInputs :
          get_stream_results(stream_id, max_results)
    /\ UNCHANGED <<processing_queue, proc, stats, handled>>
    /\ UNCHANGED <<frame_queue, sw, col, pw, budget, pushlog, popped>>
    /\ UNCHANGED outsideProcessing

\* n results were produced and none was fetched, the next MaxProcFrames
\* frames are waiting, the workers are idle.
ProcessorAt(n) ==
    /\ processing_queue = [i \in 1..MaxProcFrames |-> FrameData(n + i)]
    /\ results_queue = [i \in 1..n |-> ResultFor(FrameData(i))]
    /\ proc = [w \in Workers |-> [pc |-> "get"]]
    /\ stats = [frames_processed |-> n, recomputed_at |-> {},
                results_pushed |-> n]
    /\ handled = {}
    /\ res = [op |-> "none", n |-> 0]
    /\ vp = [running |-> TRUE, pc |-> "idle", joining |-> 0, timed_out |-> {}]

InitProcessing ==
    /\ NewRegistry
    /\ NewAnalyzer
    /\ NewHistory
    /\ NewWorkerThread
    /\ frame_queue = << >>
    /\ sw = [pc |-> "read", frame |-> 0, captured |-> 0]
    /\ col = [pc |-> "collect", frame |-> 0]
    /\ pw = [w \in {1, 2} |-> [pc |-> "get", item |-> 0]]
    /\ budget = [t \in {"sw", "col", "pw", "api"} |-> 0]
    /\ pushlog = [q \in {"frame", "processing", "results"} |-> << >>]
    /\ popped = [q \in {"frame", "processing", "results"} |-> FALSE]
    /\ \E n \in ResultBacklogs : ProcessorAt(n)

NextProcessing ==
    \/ \E w \in Workers : PrGet(w)
    \/ \E w \in Workers, outcome \in StepOutcomes : PrEncode(w, outcome)
    \/ \E w \in Workers, outcome \in StepOutcomes : PrDetect(w, outcome)
    \/ \E w \in Workers, outcome \in StepOutcomes : PrAnalyze(w, outcome)
    \/ \E w \in Workers : PrFullCheck(w)
    \/ \E w \in Workers : PrDrop(w)
    \/ \E w \in Workers : PrPut(w)
    \/ \E w \in Workers : PrStatsRead(w)
    \/ \E w \in Workers : PrStatsWrite(w)
    \/ \E w \in Workers : PrStatsAverage(w)
    \/ GetLatestResults
    \/ GetStreamResults

SpecProcessing == InitProcessing /\ [][NextProcessing]_vars

(***************************************************************************)
(* Claims about the processing workers and the result queries (checked     *)
(* under SpecProcessing)                                                   *)
(***************************************************************************)

\* The frames whose processing raised.
FailedFrames == {h \in handled : h.outcome # "pushed"}

\* Worker w is in _process_frame and this step is the one that raises.
Fails(w) ==
    /\ proc[w].pc \in {"encode", "detect", "analyze"}
    /\ \E h \in handled' \ handled : h.worker = w /\ h.outcome # "pushed"

\* No result was pushed for a frame whose processing raised.
NoResultOfFailedFrame ==
    \A h \in FailedFrames :
        /\ \A g \in handled : g.id = h.id => g = h
        /\ \A i \in DOMAIN results_queue : results_queue[i] # h.id

\* C22: when the encoding, the detection or the analysis of a frame raises,
\* the worker is back at the top of its loop with no frame in hand, nothing
\* was pushed into the results queue, the statistics are as they were, and
\* no result of that frame is ever pushed.
C22_FailedFrameDiscarded ==
    /\ []NoResultOfFailedFrame
    /\ [][ \A w \in Workers :
             Fails(w) => /\ proc'[w] = [pc |-> "get"]
                         /\ results_queue' = results_queue
                         /\ stats' = stats ]_vars

\* C22 witness: a worker whose frame failed in the analysis has taken the
\* next frame and pushed its result.
C22_Witness ==
    \E h \in FailedFrames, g \in handled :
        /\ h.outcome = "analyze"
        /\ g.worker = h.worker
        /\ g.outcome = "pushed"
        /\ g.id > h.id

\* A frame failed in the encoding, another in the detection.
C22_ReachedEncodeAndDetect ==
    /\ \E h \in FailedFrames : h.outcome = "encode"
    /\ \E h \in FailedFrames : h.outcome = "detect"

\* The elements of a sequence.
Elements(q) == {q[i] : i \in DOMAIN q}

\* This step is a result query that repeats the one before it, no result
\* having been pushed in between.
RepeatsQuery ==
    /\ res.n > 0
    /\ res'.n = res.n + 1
    /\ res'.op = res.op
    /\ res'.stream_id = res.stream_id
    /\ res'.max_results = res.max_results
    /\ res'.produced = res.produced

\* C23: a result query repeated with no result pushed in between returns
\* what the first call returned, and GetStreamResults takes nothing from the
\* results queue but the results it returns.
C23_ResultQueriesReadOnly ==
    [][ /\ RepeatsQuery => res'.returned = res.returned
        /\ (res'.n = res.n + 1 /\ res'.op = "get_stream_results") =>
               Elements(res'.removed) \subseteq Elements(res'.returned) ]_vars

\* What a result query returns it has taken out of the queue.
ResultQueriesConsume ==
    res.n > 0 =>
        /\ Elements(res.returned) \subseteq Elements(res.removed)
        /\ \A i \in DOMAIN results_queue : results_queue[i] \notin Elements(res.removed)

\* A GetStreamResults for one stream took a result of the other stream out
\* of the queue.
C23_ReachedOtherStreamTaken ==
    /\ res.op = "get_stream_results"
    /\ \E r \in Elements(res.removed) : StreamOfFrame(r) # res.stream_id

\* A query was repeated with nothing pushed in between and returned other
\* results than the first call.
C23_ReachedSecondCallDiffers ==
    /\ res.op = "get_latest_results"
    /\ res.n = 2
    /\ res.returned # << >>
    /\ res.produced = 0

\* No processing worker is inside _update_stats or about to call it.
StatsAtRest ==
    \A w \in Workers :
        proc[w].pc \notin {"stats_read", "stats_write", "stats_average"}

\* The multiples of 100 among the counts of the results pushed in this run.
AverageDue ==
    {k \in 1 .. stats.results_pushed :
        k % 100 = 0 /\ k > stats.results_pushed - Produced}

\* C34: whenever no statistics update is under way, frames_processed equals
\* the number of results pushed into the results queue, and the average fps
\* has been recomputed at every multiple of 100 processed frames, however
\* the two workers' updates interleave.
C34_StatsCountEveryResult ==
    StatsAtRest =>
        /\ stats.frames_processed = stats.results_pushed
        /\ AverageDue \subseteq stats.recomputed_at

\* The statistic never runs ahead of the results pushed, and the average is
\* recomputed at multiples of 100 only.
StatsNeverAhead ==
    /\ stats.frames_processed <= stats.results_pushed
    /\ \A k \in stats.recomputed_at : k % 100 = 0

\* Two results were pushed and counted as one.
C34_ReachedLostUpdate ==
    /\ StatsAtRest
    /\ Produced = 2
    /\ stats.frames_processed = stats.results_pushed - 1

\* Both results were counted, passing 1000, and the average was not
\* recomputed.
C34_ReachedMissedAverage ==
    /\ StatsAtRest
    /\ Produced = 2
    /\ stats.frames_processed = stats.results_pushed
    /\ stats.frames_processed = RESULTS_QUEUE_MAXSIZE + 1
    /\ stats.recomputed_at = {}

(***************************************************************************)
(* Claims about the purge of the ZoneAnalyzer (checked under SpecRetention)*)
(***************************************************************************)

\* The entries of a history that are newer than the cutoff, in their order.
KeptOf(history, cutoff) ==
    LET idx == {i \in DOMAIN history : history[i].timestamp > cutoff}
        RECURSIVE Pick(_, _)
        Pick(i, acc) ==
            IF i > Len(history) THEN acc
            ELSE Pick(i + 1, IF i \in idx THEN Append(acc, history[i]) ELSE acc)
    IN  Pick(1, << >>)

\* The histories hold no entry older than the cutoff and, of the histories
\* before, every entry newer than the cutoff, in the order it had.
PurgedTo(before, after, cutoff) ==
    /\ DOMAIN after \subseteq DOMAIN before
    /\ \A k \in DOMAIN after :
          /\ \A i \in DOMAIN after[k] : after[k][i].timestamp >= cutoff
          /\ after[k] = KeptOf(before[k], cutoff)
    /\ \A k \in DOMAIN before \ DOMAIN after : KeptOf(before[k], cutoff) = << >>

\* Every tracked person the last pass found in a zone has its entry of
\* that pass in the movement history.
PassEntriesWritten ==
    \A z \in DOMAIN za_pass'.occupancy : \A t \in za_pass'.occupancy[z] :
        /\ t \in DOMAIN za_track_history'
        /\ \E i \in DOMAIN za_track_history'[t] :
              /\ za_track_history'[t][i].timestamp = za_pass'.timestamp
              /\ za_track_history'[t][i].zone_id = z

C25_ReachedPassAfterPurge ==
    /\ purge.n = 1
    /\ za_pass.n > purge.passes
    /\ za_track_history # EmptyMap

(***************************************************************************)
(*        VideoManager under concurrent calls (SpecManager)                *)
(*                                                                         *)
(* add_stream, remove_stream and shutdown are called from request and      *)
(* signal handlers while the collector thread calls get_all_frames; no     *)
(* lock guards self.streams or self.running.  Each call is a thread that   *)
(* takes one step per statement that reads or writes the shared state.     *)
(* streams maps a stream id to a reference to a worker object.             *)
(***************************************************************************)

MaxAdds == 1
MaxRemoves == 1
MaxCollects == 1
MaxCaptured == 2
MaxQueued == 1

\* The ids the callers use, and the ids registered when the calls begin.
ManagerStreams == <<"s1", "s2", "s3">>

\* A started VideoStreamWorker: __init__ and start().
StartedWorker(id, zones) ==
    [stream_id |-> id, zones |-> NewWorker(zones).zones,
     stop_event |-> NewWorker(zones).stop_event, alive |-> TRUE,
     frame_queue |-> << >>]

\* self.streams as the checks of add_stream read it: id -> worker.
RegisteredWorkers == [i \in DOMAIN streams |-> mgr.workers[streams[i]]]

\* iter(self.streams.items()): the iterator remembers the size of the dict
\* (di_used) and the entry it has reached.
NewIter == [pos |-> 0, used |-> Cardinality(DOMAIN streams)]

\* next() on a dict iterator: RuntimeError when the size of the dict is not
\* the size remembered, else the next entry that is not deleted, else the
\* end of the iteration.
IterNext(it) ==
    LET rest == {j \in DOMAIN mgr.entries : j > it.pos /\ mgr.entries[j] # None}
    IN  IF it.used # Cardinality(DOMAIN streams) THEN [kind |-> "error"]
        ELSE IF rest = {} THEN [kind |-> "end"]
        ELSE LET j == CHOOSE x \in rest : \A y \in rest : x <= y
             IN  [kind |-> "item", key |-> mgr.entries[j],
                  it |-> [it EXCEPT !.pos = j]]

\* The entries of the dict after self.streams[id] = worker: a new key goes
\* to the end.
EntriesWith(id) ==
    IF id \in DOMAIN streams THEN mgr.entries ELSE Append(mgr.entries, id)

\* The entries of the dict after del self.streams[id]: the entry is marked
\* deleted, the entries after it keep their place.
EntriesWithout(id) ==
    [j \in DOMAIN mgr.entries |->
        IF mgr.entries[j] = id THEN None ELSE mgr.entries[j]]

\* ---- add_stream ----

\* add_stream, line 274: the test of self.running.
AddBegin(id, zones) ==
    /\ mgr.add.pc = "idle"
    /\ mgr.add.n < MaxAdds
    /\ mgr' = [mgr EXCEPT !.add =
                 IF ~running
                 THEN [pc |-> "idle", n |-> mgr.add.n + 1,
                       result |-> FALSE, why |-> "shutting_down"]
                 ELSE [pc |-> "checked", n |-> mgr.add.n,
                       id |-> id, zones |-> zones]]
    /\ UNCHANGED <<streams, running, processing_queue>>

\* add_stream, lines 278-297: the limits, the test for a registered id,
\* the worker constructed and started.  start_ok = FALSE is start() raising.
AddStart(start_ok) ==
    /\ mgr.add.pc = "checked"
    /\ LET why == AddStreamCheck(RegisteredWorkers, TRUE, mgr.add.id,
                                 mgr.add.zones)
       IN  mgr' = IF why # "ok"
                  THEN [mgr EXCEPT !.add =
                          [pc |-> "idle", n |-> mgr.add.n + 1,
                           result |-> FALSE, why |-> why]]
                  ELSE IF ~start_ok
                  THEN [mgr EXCEPT !.add =
                          [pc |-> "idle", n |-> mgr.add.n + 1,
                           result |-> FALSE, why |-> "start_failed"]]
                  ELSE [mgr EXCEPT
                          !.workers = Append(@, StartedWorker(mgr.add.id,
                                                              mgr.add.zones)),
                          !.add = [pc |-> "started", n |-> mgr.add.n,
                                   id |-> mgr.add.id,
                                   worker |-> Len(mgr.workers) + 1]]
    /\ UNCHANGED <<streams, running, processing_queue>>

\* add_stream, line 298: self.streams[config.stream_id] = worker
AddStore ==
    /\ mgr.add.pc = "started"
    /\ streams' = Register(streams, mgr.add.id, mgr.add.worker)
    /\ mgr' = [mgr EXCEPT !.entries = EntriesWith(mgr.add.id),
                          !.add = [pc |-> "idle", n |-> mgr.add.n + 1,
                                   result |-> TRUE, why |-> "ok",
                                   worker |-> mgr.add.worker]]
    /\ UNCHANGED <<running, processing_queue>>

\* ---- remove_stream ----

\* remove_stream, line 309: the test for the id.
RmBegin(id) ==
    /\ mgr.rm.pc = "idle"
    /\ mgr.rm.n < MaxRemoves
    /\ mgr' = [mgr EXCEPT !.rm =
                 IF id \notin DOMAIN streams
                 THEN [pc |-> "idle", n |-> mgr.rm.n + 1, result |-> FALSE]
                 ELSE [pc |-> "found", n |-> mgr.rm.n, id |-> id]]
    /\ UNCHANGED <<streams, running, processing_queue>>

\* remove_stream, lines 314-315: worker = self.streams[stream_id], a
\* KeyError when the id is gone; worker.stop().
RmStop ==
    /\ mgr.rm.pc = "found"
    /\ mgr' = IF mgr.rm.id \notin DOMAIN streams
              THEN [mgr EXCEPT !.rm = [pc |-> "idle", n |-> mgr.rm.n + 1,
                                       result |-> FALSE]]
              ELSE [mgr EXCEPT
                      !.workers[streams[mgr.rm.id]].stop_event = TRUE,
                      !.rm = [pc |-> "joining", n |-> mgr.rm.n,
                              id |-> mgr.rm.id]]
    /\ UNCHANGED <<streams, running, processing_queue>>

\* remove_stream, lines 316-318: worker.join(timeout=5.0) has returned;
\* del self.streams[stream_id], a KeyError when the id is gone.
RmDel ==
    /\ mgr.rm.pc = "joining"
    /\ IF mgr.rm.id \notin DOMAIN streams
       THEN /\ streams' = streams
            /\ mgr' = [mgr EXCEPT !.rm = [pc |-> "idle", n |-> mgr.rm.n + 1,
                                          result |-> FALSE]]
       ELSE /\ streams' = Unregister(streams, mgr.rm.id)
            /\ mgr' = [mgr EXCEPT !.entries = EntriesWithout(mgr.rm.id),
                                  !.rm = [pc |-> "idle", n |-> mgr.rm.n + 1,
                                          result |-> TRUE]]
    /\ UNCHANGED <<running, processing_queue>>

\* ---- shutdown ----

\* shutdown, lines 359-362: self.running.clear(); the first loop begins.
SdClear ==
    /\ mgr.sd.pc = "idle"
    /\ running' = FALSE
    /\ mgr' = [mgr EXCEPT !.sd = [pc |-> "stopping", it |-> NewIter]]
    /\ UNCHANGED <<streams, processing_queue>>

\* shutdown, lines 362-364: one round of the first loop, worker.stop().  A
\* RuntimeError leaves shutdown; at the end the second loop begins.
SdStopNext ==
    /\ mgr.sd.pc = "stopping"
    /\ LET r == IterNext(mgr.sd.it) IN
       mgr' = IF r.kind = "error" THEN [mgr EXCEPT !.sd = [pc |-> "raised"]]
              ELSE IF r.kind = "end"
              THEN [mgr EXCEPT !.sd = [pc |-> "joining", it |-> NewIter]]
              ELSE [mgr EXCEPT !.workers[streams[r.key]].stop_event = TRUE,
                               !.sd.it = r.it]
    /\ UNCHANGED <<streams, running, processing_queue>>

\* shutdown, lines 367-370: one round of the second loop,
\* worker.join(timeout=5.0), which returns whether or not the thread ended.
SdJoinNext ==
    /\ mgr.sd.pc = "joining"
    /\ LET r == IterNext(mgr.sd.it) IN
       mgr' = IF r.kind = "error" THEN [mgr EXCEPT !.sd = [pc |-> "raised"]]
              ELSE IF r.kind = "end" THEN [mgr EXCEPT !.sd = [pc |-> "clear"]]
              ELSE [mgr EXCEPT !.sd.it = r.it]
    /\ UNCHANGED <<streams, running, processing_queue>>

\* shutdown, line 372: self.streams.clear()
SdClearStreams ==
    /\ mgr.sd.pc = "clear"
    /\ streams' = EmptyMap
    /\ mgr' = [mgr EXCEPT !.entries = << >>, !.sd = [pc |-> "returned"]]
    /\ UNCHANGED <<running, processing_queue>>

\* ---- the collector's pass: get_all_frames and the puts ----

\* _frame_collector_worker, line 297, and get_all_frames, lines 335-336:
\* frames = {}; the loop over self.streams.items() begins.
GetBegin ==
    /\ mgr.get.pc = "idle"
    /\ mgr.get.n < MaxCollects
    /\ vp.running
    /\ mgr' = [mgr EXCEPT !.get = [pc |-> "iterating", n |-> mgr.get.n,
                                   it |-> NewIter, frames |-> << >>]]
    /\ UNCHANGED <<streams, running, processing_queue>>

\* get_all_frames, lines 336-340: one round of the loop: worker.get_frame()
\* takes the head of the worker's frame queue, if there is one, into frames.
\* A RuntimeError leaves get_all_frames and is caught by the collector
\* (lines 311-313), and frames is dropped with what it holds.  At the end
\* frames is returned to the collector.
GetNext ==
    /\ mgr.get.pc = "iterating"
    /\ LET r == IterNext(mgr.get.it)
           w == streams[r.key]
           q == mgr.workers[w].frame_queue
       IN
       mgr' = IF r.kind = "error"
              THEN [mgr EXCEPT
                      !.discarded = @ \cup {mgr.get.frames[i] :
                                            i \in DOMAIN mgr.get.frames},
                      !.get = [pc |-> "idle", n |-> mgr.get.n + 1]]
              ELSE IF r.kind = "end"
              THEN IF mgr.get.frames = << >>
                   THEN [mgr EXCEPT !.get = [pc |-> "idle",
                                             n |-> mgr.get.n + 1]]
                   ELSE [mgr EXCEPT !.get = [pc |-> "putting",
                                             n |-> mgr.get.n,
                                             frames |-> mgr.get.frames]]
              ELSE IF q = << >>
              THEN [mgr EXCEPT !.get.it = r.it]
              ELSE [mgr EXCEPT !.workers[w].frame_queue = Tail(q),
                               !.dequeued = @ \cup {Head(q)},
                               !.get.it = r.it,
                               !.get.frames = Append(@, Head(q))]
    /\ UNCHANGED <<streams, running, processing_queue>>

\* _frame_collector_worker, lines 299-306: one round of the loop over
\* all_frames: the oldest frame makes room when the queue is full, put.
GetPut ==
    /\ mgr.get.pc = "putting"
    /\ LET f == Head(mgr.get.frames)
           room == IF Len(processing_queue) >= PROCESSING_QUEUE_MAXSIZE
                   THEN Tail(processing_queue) ELSE processing_queue
       IN  /\ processing_queue' = Append(room, f)
           /\ mgr' = [mgr EXCEPT
                        !.forwarded = @ \cup {f},
                        !.get = IF Tail(mgr.get.frames) = << >>
                                THEN [pc |-> "idle", n |-> mgr.get.n + 1]
                                ELSE [mgr.get EXCEPT !.frames = Tail(@)]]
    /\ UNCHANGED <<streams, running>>

\* ---- the worker threads ----

\* VideoStreamWorker._process_frames: a running worker puts a frame into
\* its frame queue.
MgrWorkerCapture(w) ==
    /\ mgr.workers[w].alive
    /\ ~mgr.workers[w].stop_event
    /\ Len(mgr.workers[w].frame_queue) < MaxQueued
    /\ mgr.captured < MaxCaptured
    /\ mgr' = [mgr EXCEPT !.workers[w].frame_queue =
                              Append(@, mgr.captured + 1),
                          !.captured = @ + 1]
    /\ UNCHANGED <<streams, running, processing_queue>>

\* VideoStreamWorker.run: the loop sees the stop event and the thread ends.
MgrWorkerExit(w) ==
    /\ mgr.workers[w].alive
    /\ mgr.workers[w].stop_event
    /\ mgr' = [mgr EXCEPT !.workers[w].alive = FALSE]
    /\ UNCHANGED <<streams, running, processing_queue>>

\* What the calls on the registry leave alone.
outsideManager == <<call, frame_queue, results_queue, sw, col, pw, budget,
                    pushlog, popped, analyzerVars, historyVars, workerVars,
                    processorVars, shutdownVars>>

\* The registry after n successful add_stream calls, no call in progress.
RegistryOf(n) ==
    /\ streams = [i \in {ManagerStreams[j] : j \in 1..n} |->
                    CHOOSE j \in 1..n : ManagerStreams[j] = i]
    /\ running = TRUE
    /\ call = [op |-> "init", id |-> None, nzones |-> 0,
               result |-> TRUE, created |-> FALSE, why |-> "ok",
               stopped |-> {}]
    /\ mgr = NoCallers([j \in 1..n |->
                           StartedWorker(ManagerStreams[j], MakeZones(2))],
                       [j \in 1..n |-> ManagerStreams[j]])

InitManager ==
    /\ \E n \in 0..2 : RegistryOf(n)
    /\ NewPipeline /\ NewAnalyzer /\ NewHistory /\ NewWorkerThread
    /\ NewProcessor

AddStreamCall ==
    /\ \/ \E j \in DOMAIN ManagerStreams : AddBegin(ManagerStreams[j], MakeZones(2))
       \/ \E start_ok \in BOOLEAN : AddStart(start_ok)
       \/ AddStore
    /\ UNCHANGED outsideManager

RemoveStreamCall ==
    /\ \/ \E j \in DOMAIN ManagerStreams : RmBegin(ManagerStreams[j])
       \/ RmStop
       \/ RmDel
    /\ UNCHANGED outsideManager

ShutdownCall ==
    /\ SdClear \/ SdStopNext \/ SdJoinNext \/ SdClearStreams
    /\ UNCHANGED outsideManager

CollectorPass ==
    /\ GetBegin \/ GetNext \/ GetPut
    /\ UNCHANGED outsideManager

StreamWorkers ==
    /\ \E w \in DOMAIN mgr.workers : MgrWorkerCapture(w) \/ MgrWorkerExit(w)
    /\ UNCHANGED outsideManager

NextManager ==
    \/ AddStreamCall
    \/ RemoveStreamCall
    \/ ShutdownCall
    \/ CollectorPass
    \/ StreamWorkers

SpecManager == InitManager /\ [][NextManager]_vars

(***************************************************************************)
(* Claims about the registry under concurrent calls (checked under         *)
(* SpecManager)                                                            *)
(***************************************************************************)

\* shutdown has returned and no add_stream call is in progress.
BothReturned == mgr.sd.pc = "returned" /\ mgr.add.pc = "idle"

\* A worker thread that runs with its stop event clear.
RunsUnstopped(w) == mgr.workers[w].alive /\ ~mgr.workers[w].stop_event

\* C38: once shutdown and a concurrent add_stream have both returned, the
\* registry is empty and no started worker runs with its stop event clear.
C38_ShutdownLeavesNoLiveWorker ==
    BothReturned =>
        /\ streams = EmptyMap
        /\ \A w \in DOMAIN mgr.workers : ~RunsUnstopped(w)

\* What does hold: an add_stream call that begins after shutdown cleared
\* the flag is refused and starts nothing.
AddAfterClearRefused ==
    [][(mgr.add.pc = "idle" /\ mgr'.add.pc # "idle") => running]_vars

\* An add_stream call passed the test of the flag, shutdown ran to its end
\* over an empty registry, the call then started and registered its worker:
\* both have returned, the registry holds a running worker nobody stopped.
C38_ReachedLiveWorkerAfterShutdown ==
    /\ BothReturned
    /\ mgr.add.n = 1 /\ mgr.add.result
    /\ mgr.rm.n = 0 /\ mgr.rm.pc = "idle"
    /\ \E i \in DOMAIN streams : RunsUnstopped(streams[i])

\* The call registered its worker between the two loops of shutdown: the
\* worker was joined without being stopped, the registry cleared, and the
\* thread runs on with no reference to it left.
C38_ReachedUnstoppedWorkerDropped ==
    /\ BothReturned
    /\ streams = EmptyMap
    /\ \E w \in DOMAIN mgr.workers : RunsUnstopped(w)

\* The call registered its worker during a loop of shutdown: shutdown ends
\* with a RuntimeError, the registry is not cleared.
C38_ReachedShutdownRaised ==
    /\ mgr.sd.pc = "raised"
    /\ streams # EmptyMap

\* The frames the collector holds in the pass it is in.
FramesInHand ==
    IF mgr.get.pc \in {"iterating", "putting"}
    THEN {mgr.get.frames[i] : i \in DOMAIN mgr.get.frames}
    ELSE {}

\* C39: every frame the collector dequeued from a stream's queue is in its
\* hands or has been put into the processing queue; no pass drops frames it
\* dequeued, also when the registry changes during the pass.
C39_DequeuedFramesForwarded ==
    /\ mgr.discarded = {}
    /\ \A f \in mgr.dequeued : f \in FramesInHand \/ f \in mgr.forwarded

\* What does hold: a pass during which the registry keeps its size puts
\* every frame it dequeued; frames are dropped by a pass only on the
\* RuntimeError of the iteration.
DroppedOnlyOnSizeChange ==
    [][mgr'.discarded # mgr.discarded =>
          /\ mgr.get.pc = "iterating"
          /\ mgr.get.it.used # Cardinality(DOMAIN streams)]_vars

\* No frame is both forwarded and dropped, and every dequeued frame is
\* accounted for.
DequeuedAccounted ==
    /\ mgr.forwarded \cap mgr.discarded = {}
    /\ mgr.dequeued = FramesInHand \cup mgr.forwarded \cup mgr.discarded

\* A pass dequeued a frame, then a stream was removed, and the pass ended
\* with the frame dropped.
C39_ReachedDropAfterRemove ==
    /\ mgr.discarded # {}
    /\ mgr.rm.n = 1 /\ mgr.rm.result
    /\ mgr.add.n = 0 /\ mgr.add.pc = "idle"
    /\ mgr.sd.pc = "idle"

\* The same after a stream was added during the pass.
C39_ReachedDropAfterAdd ==
    /\ mgr.discarded # {}
    /\ mgr.add.n = 1 /\ mgr.add.result
    /\ mgr.rm.n = 0 /\ mgr.rm.pc = "idle"
    /\ mgr.sd.pc = "idle"

====
